---------------------------- MODULE Spec2Model ----------------------------
(***************************************************************************)
(* A model of flamegraph_analyzer.py: the command-line entry point main,   *)
(* FlameGraphAnalyzer.parse_file and the report sections.                  *)
(*                                                                         *)
(* Text is modelled character by character: a string is a sequence of      *)
(* one-character strings, so that strip, rsplit, split, int() and the      *)
(* substring test `x in y` are computed as Python computes them.  A dict   *)
(* is a sequence of <<key, value>> pairs in insertion order, which is the  *)
(* order Python iterates it in.                                            *)
(***************************************************************************)
EXTENDS Integers, Sequences, FiniteSets, TLC

(***************************************************************************)
(* Bounds of the model.                                                    *)
(***************************************************************************)
\* The longest input file, in lines.
MaxLines == 2

(***************************************************************************)
(* Strings.                                                                *)
(***************************************************************************)
\* str.strip() and int() skip whitespace; of it the inputs hold blank and tab.
Whitespace == {" ", "\t"}

Digits == {"0", "1", "2", "3", "4", "5", "6", "7", "8", "9"}

DigitVal(c) ==
    CASE c = "0" -> 0 [] c = "1" -> 1 [] c = "2" -> 2 [] c = "3" -> 3
      [] c = "4" -> 4 [] c = "5" -> 5 [] c = "6" -> 6 [] c = "7" -> 7
      [] c = "8" -> 8 [] c = "9" -> 9

RECURSIVE LStrip(_)
LStrip(s) ==
    IF s # <<>> /\ Head(s) \in Whitespace THEN LStrip(Tail(s)) ELSE s

RECURSIVE RStrip(_)
RStrip(s) ==
    IF s # <<>> /\ s[Len(s)] \in Whitespace
    THEN RStrip(SubSeq(s, 1, Len(s) - 1))
    ELSE s

\* str.strip()
Strip(s) == RStrip(LStrip(s))

\* c in s, for a character c
HasChar(s, c) == \E i \in 1..Len(s) : s[i] = c

\* sub in s, for a string sub
Contains(sub, s) ==
    \E i \in 0..(Len(s) - Len(sub)) : SubSeq(s, i + 1, i + Len(sub)) = sub

\* str.rfind(c) + 1: the last position of c in s, 0 when there is none
LastIndexOf(s, c) ==
    IF HasChar(s, c)
    THEN CHOOSE i \in 1..Len(s) :
             s[i] = c /\ \A j \in (i + 1)..Len(s) : s[j] # c
    ELSE 0

\* s.rsplit(c, 1): one part when c does not occur in s, else two
RSplit1(s, c) ==
    LET i == LastIndexOf(s, c) IN
    IF i = 0
    THEN << s >>
    ELSE << SubSeq(s, 1, i - 1), SubSeq(s, i + 1, Len(s)) >>

\* s.split(c): the pieces between the occurrences of c, never fewer than one
RECURSIVE Split(_, _)
Split(s, c) ==
    LET first == IF HasChar(s, c)
                 THEN CHOOSE i \in 1..Len(s) :
                          s[i] = c /\ \A j \in 1..(i - 1) : s[j] # c
                 ELSE 0
    IN  IF first = 0
        THEN << s >>
        ELSE << SubSeq(s, 1, first - 1) >>
                 \o Split(SubSeq(s, first + 1, Len(s)), c)

\* The digits of an int() literal: digits, single underscores between them.
RECURSIVE IsDigitRun(_)
IsDigitRun(s) ==
    /\ s # <<>>
    /\ Head(s) \in Digits
    /\ \/ Len(s) = 1
       \/ Head(Tail(s)) = "_" /\ IsDigitRun(Tail(Tail(s)))
       \/ Head(Tail(s)) # "_" /\ IsDigitRun(Tail(s))

RECURSIVE DigitRunVal(_, _)
DigitRunVal(s, acc) ==
    IF s = <<>> THEN acc
    ELSE IF Head(s) = "_" THEN DigitRunVal(Tail(s), acc)
    ELSE DigitRunVal(Tail(s), 10 * acc + DigitVal(Head(s)))

\* int(s) does not raise ValueError
IsInt(s) ==
    LET t == Strip(s) IN
    /\ t # <<>>
    /\ IF Head(t) \in {"+", "-"} THEN IsDigitRun(Tail(t)) ELSE IsDigitRun(t)

\* int(s), where IsInt(s)
IntVal(s) ==
    LET t == Strip(s) IN
    IF Head(t) = "-" THEN 0 - DigitRunVal(Tail(t), 0)
    ELSE IF Head(t) = "+" THEN DigitRunVal(Tail(t), 0)
    ELSE DigitRunVal(t, 0)

(***************************************************************************)
(* Dicts: defaultdict(int) and defaultdict(set), in insertion order.       *)
(***************************************************************************)
DictKeys(d) == { d[i][1] : i \in 1..Len(d) }

DictHas(d, k) == \E i \in 1..Len(d) : d[i][1] = k

\* d.get(k, default)
DictGet(d, k, default) ==
    IF DictHas(d, k)
    THEN d[CHOOSE i \in 1..Len(d) : d[i][1] = k][2]
    ELSE default

\* d[k] += w on a defaultdict(int): a missing key is inserted last
DictAdd(d, k, w) ==
    IF DictHas(d, k)
    THEN [ i \in 1..Len(d) |->
             IF d[i][1] = k THEN << k, d[i][2] + w >> ELSE d[i] ]
    ELSE Append(d, << k, w >>)

\* d[k].add(x) on a defaultdict(set)
DictSetAdd(d, k, x) ==
    IF DictHas(d, k)
    THEN [ i \in 1..Len(d) |->
             IF d[i][1] = k THEN << k, d[i][2] \cup {x} >> ELSE d[i] ]
    ELSE Append(d, << k, {x} >>)

\* sum(d.values())
RECURSIVE DictSum(_)
DictSum(d) == IF d = <<>> THEN 0 ELSE d[1][2] + DictSum(Tail(d))


(***************************************************************************)
(* FlameGraphAnalyzer: construction.                                       *)
(***************************************************************************)
\* self.categories: (category name, substring) in the order of the dict literal
categories ==
    << << "MoganSTEM", <<"M","o","g","a","n","S","T","E","M">> >>,
       << "Qt", <<"Q","t">> >>,
       << "AppKit", <<"A","p","p","K","i","t">> >>,
       << "CoreFoundation",
          <<"C","o","r","e","F","o","u","n","d","a","t","i","o","n">> >>,
       << "libsystem_malloc",
          <<"l","i","b","s","y","s","t","e","m","_","m","a","l","l","o","c">> >>,
       << "libsystem_kernel",
          <<"l","i","b","s","y","s","t","e","m","_","k","e","r","n","e","l">> >>,
       << "QuartzCore", <<"Q","u","a","r","t","z","C","o","r","e">> >>,
       << "Foundation", <<"F","o","u","n","d","a","t","i","o","n">> >>,
       << "HIToolbox", <<"H","I","T","o","o","l","b","o","x">> >>,
       << "CoreText", <<"C","o","r","e","T","e","x","t">> >>,
       << "iiiSTEM", <<"i","i","i","S","T","E","M">> >>,
       << "libqcocoa",
          <<"l","i","b","q","c","o","c","o","a",".","d","y","l","i","b">> >>,
       << "libqsvgicon",
          <<"l","i","b","q","s","v","g","i","c","o","n",".","d","y","l","i","b">> >>,
       << "libxpc", <<"l","i","b","x","p","c",".","d","y","l","i","b">> >>,
       << "libdispatch",
          <<"l","i","b","d","i","s","p","a","t","c","h",".","d","y","l","i","b">> >>,
       << "libobjc",
          <<"l","i","b","o","b","j","c",".","A",".","d","y","l","i","b">> >>,
       << "libswiftCore",
          <<"l","i","b","s","w","i","f","t","C","o","r","e",".","d","y","l","i","b">> >> >>

\* The fallback bucket, which the source names in Chinese ("other").
OtherCategory == "other"

\* A variant of FreshAnalyzer that starts every bucket of the category list
\* at 0.
FreshAnalyzerWithBuckets ==
    [ inclusive_time  |-> <<>>,
      exclusive_time  |-> <<>>,
      call_relations  |-> <<>>,
      leaf_counts     |-> <<>>,
      func_counts     |-> <<>>,
      total_samples   |-> 0,
      parsed_lines    |-> 0,
      line_count      |-> 0,
      malloc_counts   |-> <<>>,
      free_counts     |-> <<>>,
      category_counts |->
          [ i \in 1..Len(categories) |-> << categories[i][1], 0 >> ] ]

\* FlameGraphAnalyzer.__init__: every tally empty, every counter 0
FreshAnalyzer ==
    [ inclusive_time  |-> <<>>,
      exclusive_time  |-> <<>>,
      call_relations  |-> <<>>,
      leaf_counts     |-> <<>>,
      func_counts     |-> <<>>,
      total_samples   |-> 0,
      parsed_lines    |-> 0,
      line_count      |-> 0,
      malloc_counts   |-> <<>>,
      free_counts     |-> <<>>,
      category_counts |-> <<>> ]

(***************************************************************************)
(* FlameGraphAnalyzer.parse_file: one line.                                *)
(***************************************************************************)
\* A variant of SplitParts that splits at the last semicolon only.
SplitPartsSemicolonOnly(line) == RSplit1(line, ";")

\* parts: the line split at its last semicolon, else at its last blank
SplitParts(line) ==
    LET parts == RSplit1(line, ";") IN
    IF Len(parts) # 2 /\ HasChar(line, " ")
    THEN RSplit1(line, " ")
    ELSE parts

\* A variant of ParseLine that, when the count does not parse, keeps the
\* stack before the count and drops the token.
ParseLineDropToken(line) ==
    LET parts == SplitParts(line) IN
    IF Len(parts) = 2
    THEN IF IsInt(parts[2])
         THEN [ stack_str |-> parts[1], count |-> IntVal(parts[2]) ]
         ELSE [ stack_str |-> parts[1], count |-> 1 ]
    ELSE [ stack_str |-> line, count |-> 1 ]

\* (stack_str, count) of a stripped, non-empty line
ParseLine(line) ==
    LET parts == SplitParts(line) IN
    IF Len(parts) = 2
    THEN IF IsInt(parts[2])
         THEN [ stack_str |-> parts[1], count |-> IntVal(parts[2]) ]
         ELSE [ stack_str |-> line, count |-> 1 ]
    ELSE [ stack_str |-> line, count |-> 1 ]

\* 1. func_counts[func] += count for every non-empty frame of the stack
RECURSIVE AddFuncCounts(_, _, _)
AddFuncCounts(d, stack, count) ==
    IF stack = <<>> THEN d
    ELSE AddFuncCounts(
             IF Head(stack) # <<>> THEN DictAdd(d, Head(stack), count) ELSE d,
             Tail(stack), count)

\* A variant of AddCallRelations that records the first pair of a stack only.
AddCallRelationsFirstPair(d, stack) ==
    IF Len(stack) < 2 THEN d ELSE DictSetAdd(d, stack[1], stack[2])

\* 2. call_relations[stack[i]].add(stack[i + 1]) for every adjacent pair
RECURSIVE AddCallRelations(_, _)
AddCallRelations(d, stack) ==
    IF Len(stack) < 2 THEN d
    ELSE AddCallRelations(DictSetAdd(d, stack[1], stack[2]), Tail(stack))

\* A variant of AddInclusive that counts each name of the stack once.
RECURSIVE AddInclusiveOnce(_, _, _)
AddInclusiveOnce(d, stack, count) ==
    IF stack = <<>> THEN d
    ELSE AddInclusiveOnce(
             IF \E i \in 2..Len(stack) : stack[i] = Head(stack)
             THEN d
             ELSE DictAdd(d, Head(stack), count),
             Tail(stack), count)

\* 3. of a variant that skips the frames without a name, as step 1 does
RECURSIVE AddInclusiveNamed(_, _, _)
AddInclusiveNamed(d, stack, count) ==
    IF stack = <<>> THEN d
    ELSE AddInclusiveNamed(
             IF Head(stack) = <<>> THEN d
             ELSE DictAdd(d, Head(stack), count),
             Tail(stack), count)

\* 3. inclusive_time[func] += count for every frame of the stack
RECURSIVE AddInclusive(_, _, _)
AddInclusive(d, stack, count) ==
    IF stack = <<>> THEN d
    ELSE AddInclusive(DictAdd(d, Head(stack), count), Tail(stack), count)

\* the leaf is of the allocation family
IsAllocLeaf(leaf) ==
    \/ Contains(<<"m","a","l","l","o","c">>, leaf)
    \/ Contains(<<"c","a","l","l","o","c">>, leaf)
    \/ Contains(<<"r","e","a","l","l","o","c">>, leaf)

\* the leaf is of the free family
IsFreeLeaf(leaf) == Contains(<<"f","r","e","e">>, leaf)

\* A variant of AddSample that leaves the leaf tallies of a sample with a
\* one-frame stack alone.
AddSampleDeepLeaf(self, stack, count) ==
    LET leaf == stack[Len(stack)] IN
    [ self EXCEPT
        !.func_counts = AddFuncCounts(@, stack, count),
        !.call_relations = AddCallRelations(@, stack),
        !.inclusive_time = AddInclusive(@, stack, count),
        !.exclusive_time =
            IF Len(stack) > 1 THEN DictAdd(@, leaf, count) ELSE @,
        !.leaf_counts =
            IF Len(stack) > 1 THEN DictAdd(@, leaf, count) ELSE @,
        !.malloc_counts =
            IF IsAllocLeaf(leaf) THEN DictAdd(@, leaf, count) ELSE @,
        !.free_counts =
            IF ~IsAllocLeaf(leaf) /\ IsFreeLeaf(leaf)
            THEN DictAdd(@, leaf, count) ELSE @ ]

\* A variant of AddSample that tests the free family first.
AddSampleFreeFirst(self, stack, count) ==
    LET leaf == stack[Len(stack)] IN
    [ self EXCEPT
        !.func_counts = AddFuncCounts(@, stack, count),
        !.call_relations = AddCallRelations(@, stack),
        !.inclusive_time = AddInclusive(@, stack, count),
        !.exclusive_time = DictAdd(@, leaf, count),
        !.leaf_counts = DictAdd(@, leaf, count),
        !.malloc_counts =
            IF ~IsFreeLeaf(leaf) /\ IsAllocLeaf(leaf)
            THEN DictAdd(@, leaf, count) ELSE @,
        !.free_counts =
            IF IsFreeLeaf(leaf) THEN DictAdd(@, leaf, count) ELSE @ ]

\* Steps 1 to 5 of a variant that tests the two families one after the
\* other (if/if): a leaf named by both is counted in both
AddSampleBothFamilies(self, stack, count) ==
    LET leaf == stack[Len(stack)] IN
    [ self EXCEPT
        !.func_counts = AddFuncCounts(@, stack, count),
        !.call_relations = AddCallRelations(@, stack),
        !.inclusive_time = AddInclusive(@, stack, count),
        !.exclusive_time = DictAdd(@, leaf, count),
        !.leaf_counts = DictAdd(@, leaf, count),
        !.malloc_counts =
            IF IsAllocLeaf(leaf) THEN DictAdd(@, leaf, count) ELSE @,
        !.free_counts =
            IF IsFreeLeaf(leaf) THEN DictAdd(@, leaf, count) ELSE @ ]

\* Steps 1 to 5 of the loop body, for a non-empty stack
AddSample(self, stack, count) ==
    LET leaf == stack[Len(stack)] IN
    [ self EXCEPT
        !.func_counts = AddFuncCounts(@, stack, count),
        !.call_relations = AddCallRelations(@, stack),
        !.inclusive_time = AddInclusive(@, stack, count),
        !.exclusive_time = DictAdd(@, leaf, count),
        !.leaf_counts = DictAdd(@, leaf, count),
        !.malloc_counts =
            IF IsAllocLeaf(leaf) THEN DictAdd(@, leaf, count) ELSE @,
        !.free_counts =
            IF ~IsAllocLeaf(leaf) /\ IsFreeLeaf(leaf)
            THEN DictAdd(@, leaf, count) ELSE @ ]

\* No line was read, or the line read was blank
NoSample == [ accepted |-> FALSE, stack |-> <<>>, count |-> 0 ]

\* The sample of one raw line: stack and count as they stand at line 91, or
\* no sample for a line that is empty once stripped
SampleOf(raw) ==
    LET line == Strip(raw) IN
    IF line = <<>>
    THEN NoSample
    ELSE LET p == ParseLine(line) IN
         [ accepted |-> TRUE,
           stack    |-> Split(p.stack_str, ";"),
           count    |-> p.count ]

\* The body of the loop over the lines of the file, for one raw line
ProcessLine(self, raw) ==
    LET s    == SampleOf(raw)
        seen == [ self EXCEPT !.line_count = @ + 1 ]
    IN  IF ~s.accepted
        THEN seen
        ELSE LET acc == [ seen EXCEPT !.total_samples = @ + s.count,
                                      !.parsed_lines = @ + 1 ]
             IN  IF s.stack = <<>> THEN acc
                 ELSE AddSample(acc, s.stack, s.count)

(***************************************************************************)
(* FlameGraphAnalyzer.parse_file: step 6, the category distribution.       *)
(***************************************************************************)
\* A variant of CategoryOf in which the last matching entry wins.
CategoryOfLast(func) ==
    IF \E i \in 1..Len(categories) : Contains(categories[i][2], func)
    THEN categories[CHOOSE i \in 1..Len(categories) :
                        /\ Contains(categories[i][2], func)
                        /\ \A j \in (i + 1)..Len(categories) :
                               ~Contains(categories[j][2], func)][1]
    ELSE OtherCategory

\* The loop of lines 127 to 133 from entry i on: the first entry whose
\* substring the name holds breaks the loop, the fallback when none does
RECURSIVE CategoryFrom(_, _)
CategoryFrom(i, func) ==
    IF i > Len(categories) THEN OtherCategory
    ELSE IF Contains(categories[i][2], func) THEN categories[i][1]
    ELSE CategoryFrom(i + 1, func)

\* The bucket of a function name
CategoryOf(func) == CategoryFrom(1, func)

\* for func, count in self.func_counts.items(): category_counts[..] += count
RECURSIVE AddCategories(_, _)
AddCategories(cc, fc) ==
    IF fc = <<>> THEN cc
    ELSE AddCategories(DictAdd(cc, CategoryOf(fc[1][1]), fc[1][2]), Tail(fc))

Categorize(self) ==
    [ self EXCEPT !.category_counts = AddCategories(@, self.func_counts) ]

(***************************************************************************)
(* Inputs: the lines a file may hold and the command lines main may get.   *)
(***************************************************************************)
LinePool ==
    { <<" ">>,                                         \* a blank line
      <<"a",";","b"," ","5">>,                         \* a;b 5
      <<"a"," ","5">>,                                 \* a 5
      <<"a",";","a",";","a",";","5">>,                 \* a;a;a;5
      <<"b",";","a",";","b",";","0">>,                 \* b;a;b;0
      <<"a",";","-","5">>,                             \* a;-5
      <<";","5">>,                                     \* ;5
      <<"a","b">>,                                     \* ab
      <<"a",";","m","a","l","l","o","c",";","5">>,     \* a;malloc;5
      <<"f","r","e","e",";","2">>,                     \* free;2
      <<"Q","t","F","o","u","n","d","a","t","i","o","n",";","a",";","2">>,
                                                       \* QtFoundation;a;2
      <<"C","o","r","e","F","o","u","n","d","a","t","i","o","n"," ","3">> }
                                                       \* CoreFoundation 3

\* The files of at most MaxLines lines
Files == UNION { [ 1..n -> LinePool ] : n \in 0..MaxLines }

\* The names of the report sections, in the order they are rendered in
SectionOrder ==
    << "basic", "inclusive", "exclusive", "leaf", "category", "memory",
       "mogan", "performance", "call" >>

\* What --analysis may name
AnalysisTypes ==
    { "inclusive", "exclusive", "leaf", "category", "memory", "mogan",
      "performance", "call" }

\* args of main: all is args.analysis == 'all', types is analysis_types,
\* output is whether --output names a file
ArgsPool ==
    { [ all |-> TRUE, types |-> {}, no_report |-> FALSE, top |-> 20,
        output |-> FALSE ],
      [ all |-> TRUE, types |-> {}, no_report |-> FALSE, top |-> 1,
        output |-> TRUE ],
      [ all |-> FALSE, types |-> {"memory"}, no_report |-> TRUE, top |-> 20,
        output |-> FALSE ],
      [ all |-> FALSE, types |-> AnalysisTypes, no_report |-> FALSE,
        top |-> 1, output |-> FALSE ] }
    \cup { [ all |-> FALSE, types |-> {t}, no_report |-> FALSE, top |-> 20,
             output |-> FALSE ] : t \in AnalysisTypes }

(***************************************************************************)
(* The state of one run of main.                                           *)
(***************************************************************************)
VARIABLES
    file_exists,   \* os.path.exists(args.file)
    file,          \* the lines of the input file
    args,          \* the parsed command line
    pc,            \* where main is: "main", "parse", "render", "exit"
    caller,        \* who called parse_file: "main" or "run_analysis"
    pos,           \* the lines the running parse_file has read
    sample,        \* stack and count of the line read last
    analyzer,      \* the FlameGraphAnalyzer
    constructed,   \* how many analyzers were constructed
    scans,         \* how many times parse_file was entered
    section,       \* the report section to render next
    out,           \* what was printed: the sections rendered, in order
    stdout,        \* sys.stdout: "console" or "file"
    report_file,   \* the --output file: "none", "open" or "closed"
    exit_code,     \* the exit status, -1 while main runs
    fault,         \* the uncaught exception main died of, or "none"
    earlier,       \* the analyzer an earlier run of main left, if one ran
    prof           \* the profiler that produced the stacks, see the last part

vars ==
    << file_exists, file, args, pc, caller, pos, sample, analyzer,
       constructed, scans, section, out, stdout, report_file, exit_code,
       fault, earlier, prof >>

\* No profiler runs while the analyzer does: the profilers are separate
\* programs, their runs are the subject of ProfilerSpec
NoProfiler ==
    [ kind |-> "none",
      global_config |-> [ skip_build |-> FALSE, enable_memory |-> TRUE ],
      cli |-> [ no_build |-> FALSE, no_memory |-> FALSE ],
      build_cmds |-> 0, skip_build |-> FALSE, enable_memory |-> TRUE,
      step |-> "main", built |-> <<>>, failed |-> 0,
      target_process |-> "none", dtrace_processes |-> {},
      cleanups |-> 0, registered |-> FALSE, generated |-> FALSE,
      raised |-> "none", result |-> "none" ]

\* No run of main came before this one
NoRun == [ ran |-> FALSE, analyzer |-> FreshAnalyzer ]

Init ==
    /\ file_exists \in BOOLEAN
    /\ file \in (IF file_exists THEN Files ELSE { <<>> })
    /\ args \in ArgsPool
    /\ pc = "main"
    /\ caller = "none"
    /\ pos = 0
    /\ sample = NoSample
    /\ analyzer = FreshAnalyzer
    /\ constructed = 0
    /\ scans = 0
    /\ section = "none"
    /\ out = <<>>
    /\ stdout = "console"
    /\ report_file = "none"
    /\ exit_code = -1
    /\ fault = "none"
    /\ earlier = NoRun
    /\ prof = NoProfiler

(***************************************************************************)
(* main: start-up and the scans of the file.                               *)
(***************************************************************************)
\* A variant of MainMissingFile that reports the missing file and goes on.
MainMissingFileNoExit ==
    /\ pc = "main"
    /\ ~file_exists
    /\ analyzer' = FreshAnalyzer
    /\ constructed' = constructed + 1
    /\ pc' = "parse"
    /\ caller' = "main"
    /\ pos' = 0
    /\ scans' = scans + 1
    /\ UNCHANGED << prof, earlier, file_exists, file, args, sample, section, out, stdout,
                    report_file, exit_code, fault >>

\* main, lines 445 to 447: the file is missing
MainMissingFile ==
    /\ pc = "main"
    /\ ~file_exists
    /\ pc' = "exit"
    /\ exit_code' = 1
    /\ UNCHANGED << prof, earlier, file_exists, file, args, caller, pos, sample, analyzer,
                    constructed, scans, section, out, stdout, report_file,
                    fault >>

\* A variant of MainCreateAnalyzer that goes on with the analyzer it finds.
MainCreateAnalyzerReused ==
    /\ pc = "main"
    /\ file_exists
    /\ analyzer' = analyzer
    /\ constructed' = constructed + 1
    /\ pc' = "parse"
    /\ caller' = "main"
    /\ pos' = 0
    /\ scans' = scans + 1
    /\ UNCHANGED << prof, earlier, file_exists, file, args, sample, section, out,
                    stdout, report_file, exit_code, fault >>

\* main, lines 449 and 450: construct the analyzer and enter parse_file
MainCreateAnalyzer ==
    /\ pc = "main"
    /\ file_exists
    /\ analyzer' = FreshAnalyzer
    /\ constructed' = constructed + 1
    /\ pc' = "parse"
    /\ caller' = "main"
    /\ pos' = 0
    /\ scans' = scans + 1
    /\ UNCHANGED << prof, earlier, file_exists, file, args, sample, section, out, stdout,
                    report_file, exit_code, fault >>

\* parse_file: one turn of the loop over the lines
ReadLine ==
    /\ pc = "parse"
    /\ pos < Len(file)
    /\ sample' = SampleOf(file[pos + 1])
    /\ analyzer' = ProcessLine(analyzer, file[pos + 1])
    /\ pos' = pos + 1
    /\ UNCHANGED << prof, earlier, file_exists, file, args, pc, caller, constructed, scans,
                    section, out, stdout, report_file, exit_code, fault >>

\* main, line 452: the complete analysis is asked for
FullMode == args.all \/ args.no_report

\* run_analysis, line 398: report = not args.no_report
ReportMode == ~args.no_report

\* parse_file called by main ends (step 6); main goes on at line 452:
\* run_analysis enters parse_file again, the selected mode starts to render
EndParseMain ==
    /\ pc = "parse"
    /\ caller = "main"
    /\ pos = Len(file)
    /\ analyzer' = Categorize(analyzer)
    /\ IF FullMode
       THEN /\ pc' = "parse"
            /\ caller' = "run_analysis"
            /\ pos' = 0
            /\ scans' = scans + 1
            /\ section' = section
       ELSE /\ pc' = "render"
            /\ caller' = "none"
            /\ pos' = pos
            /\ scans' = scans
            /\ section' = "basic"
    /\ UNCHANGED << prof, earlier, file_exists, file, args, sample, constructed, out,
                    stdout, report_file, exit_code, fault >>

\* parse_file called by run_analysis ends (step 6); generate_report opens
\* the output file when one is given and the report is wanted
EndParseRun ==
    /\ pc = "parse"
    /\ caller = "run_analysis"
    /\ pos = Len(file)
    /\ analyzer' = Categorize(analyzer)
    /\ pc' = "render"
    /\ caller' = "none"
    /\ section' = "basic"
    /\ IF ReportMode /\ args.output
       THEN stdout' = "file" /\ report_file' = "open"
       ELSE UNCHANGED << stdout, report_file >>
    /\ UNCHANGED << prof, earlier, file_exists, file, args, pos, sample, constructed,
                    scans, out, exit_code, fault >>

(***************************************************************************)
(* The report sections.  What a section prints is kept as entries          *)
(* [section, rows]; a percentage is kept exactly, as the pair it is the    *)
(* quotient of.                                                            *)
(***************************************************************************)
\* seq[:n]
Slice(seq, n) ==
    IF n >= 0
    THEN SubSeq(seq, 1, IF n < Len(seq) THEN n ELSE Len(seq))
    ELSE SubSeq(seq, 1, IF Len(seq) + n > 0 THEN Len(seq) + n ELSE 0)

\* sorted(items, key=..., reverse=True), keys[i] the key of items[i]:
\* descending, items of equal key in their original order
SortedDesc(items, keys) ==
    LET n == Len(items)
        rank(i) ==
            1 + Cardinality({ j \in 1..n :
                    keys[j] > keys[i] \/ (keys[j] = keys[i] /\ j < i) })
    IN  [ r \in 1..n |-> items[CHOOSE i \in 1..n : rank(i) = r] ]

\* sorted(d.items(), key=lambda x: x[1], reverse=True)
SortedByValue(d) == SortedDesc(d, [ i \in 1..Len(d) |-> d[i][2] ])

\* (value / total) * 100, where total # 0
Percentage(value, total) == [ num |-> 100 * value, den |-> total ]

\* percentage > k, for a percentage of a non-zero total
PercentageAbove(p, k) ==
    IF p.den > 0 THEN p.num > k * p.den ELSE p.num < k * p.den

\* The rows of a ranking: the first top_n of the items by descending value,
\* each name cut to width characters, each with its percentage of
\* total_samples.  The division is not guarded.
RankedRows(d, top_n, width, total) ==
    LET window == Slice(SortedByValue(d), top_n) IN
    IF total = 0
    THEN <<>>
    ELSE [ i \in 1..Len(window) |->
             [ rank  |-> i,
               name  |-> Slice(window[i][1], width),
               value |-> window[i][2],
               pct   |-> Percentage(window[i][2], total) ] ]

\* The rows of the category distribution: every bucket, by descending weight
CategoryRows(d, total) ==
    LET sorted == SortedByValue(d) IN
    IF total = 0
    THEN <<>>
    ELSE [ i \in 1..Len(sorted) |->
             [ rank  |-> i,
               name  |-> sorted[i][1],
               value |-> sorted[i][2],
               pct   |-> Percentage(sorted[i][2], total) ] ]

\* The ranking raises ZeroDivisionError at its first row
RankedFault(d, top_n, total) == total = 0 /\ Slice(d, top_n) # <<>>

\* Whether main renders the section: every section in the complete analysis,
\* else the basic statistics and the sections --analysis names
Wanted(sec) == FullMode \/ sec = "basic" \/ sec \in args.types

\* The section main renders after section number i, "end" after the last
RECURSIVE SectionAfter(_)
SectionAfter(i) ==
    IF i >= Len(SectionOrder) THEN "end"
    ELSE IF Wanted(SectionOrder[i + 1]) THEN SectionOrder[i + 1]
    ELSE SectionAfter(i + 1)

NextSection(sec) ==
    SectionAfter(CHOOSE i \in 1..Len(SectionOrder) : SectionOrder[i] = sec)

\* The top_n a ranking is called with: the defaults of the print methods in
\* the complete analysis, args.top in the selected mode
DefaultTopInclusive == 20
DefaultTopExclusive == 20
DefaultTopLeaf == 30
DefaultTopCall == 10

TopFor(default) == IF FullMode THEN default ELSE args.top

\* A variant of EndSection in which a section reads malloc_counts by
\* subscript, so that the defaultdict gains an entry of 0 for every leaf of
\* free_counts it did not hold.
EndSectionSubscript(printed, faulted) ==
    LET ending == faulted \/ NextSection(section) = "end"
        Missing(entry) == ~DictHas(analyzer.malloc_counts, entry[1])
        added == SelectSeq(analyzer.free_counts, Missing)
    IN
    /\ out' = out \o printed
    /\ pc' = IF ending THEN "exit" ELSE pc
    /\ section' = IF ending THEN "none" ELSE NextSection(section)
    /\ exit_code' = IF faulted THEN 1 ELSE IF ending THEN 0 ELSE exit_code
    /\ fault' = IF faulted THEN "ZeroDivisionError" ELSE fault
    /\ stdout' = IF ending THEN "console" ELSE stdout
    /\ report_file' =
           IF ending /\ report_file = "open" THEN "closed" ELSE report_file
    /\ analyzer' =
           [ analyzer EXCEPT !.malloc_counts =
               @ \o [ i \in 1..Len(added) |-> << added[i][1], 0 >> ] ]
    /\ UNCHANGED << prof, earlier, file_exists, file, args, caller, pos, sample,
                    constructed, scans >>

\* A variant of EndSection without the finally: the output file is closed
\* and sys.stdout restored after the last section only.
EndSectionNoFinally(printed, faulted) ==
    LET ending == faulted \/ NextSection(section) = "end"
        closing == ~faulted /\ NextSection(section) = "end"
    IN
    /\ out' = out \o printed
    /\ pc' = IF ending THEN "exit" ELSE pc
    /\ section' = IF ending THEN "none" ELSE NextSection(section)
    /\ exit_code' = IF faulted THEN 1 ELSE IF ending THEN 0 ELSE exit_code
    /\ fault' = IF faulted THEN "ZeroDivisionError" ELSE fault
    /\ stdout' = IF closing THEN "console" ELSE stdout
    /\ report_file' =
           IF closing /\ report_file = "open" THEN "closed" ELSE report_file
    /\ UNCHANGED << prof, earlier, file_exists, file, args, caller, pos, sample,
                    analyzer, constructed, scans >>

\* The end of a section: what it printed is appended; a ZeroDivisionError
\* ends main with a traceback, the last section ends it normally; in both
\* cases generate_report's finally closes the output file it opened
EndSection(printed, faulted) ==
    LET ending == faulted \/ NextSection(section) = "end" IN
    /\ out' = out \o printed
    /\ pc' = IF ending THEN "exit" ELSE pc
    /\ section' = IF ending THEN "none" ELSE NextSection(section)
    /\ exit_code' = IF faulted THEN 1 ELSE IF ending THEN 0 ELSE exit_code
    /\ fault' = IF faulted THEN "ZeroDivisionError" ELSE fault
    /\ stdout' = IF ending THEN "console" ELSE stdout
    /\ report_file' =
           IF ending /\ report_file = "open" THEN "closed" ELSE report_file
    /\ UNCHANGED << prof, earlier, file_exists, file, args, caller, pos, sample, analyzer,
                    constructed, scans >>

\* sum(len(v) for v in self.call_relations.values())
RECURSIVE CountRelations(_)
CountRelations(cr) ==
    IF cr = <<>> THEN 0 ELSE Cardinality(cr[1][2]) + CountRelations(Tail(cr))

PrintBasicStats ==
    /\ pc = "render"
    /\ section = "basic"
    /\ EndSection(
           << [ section |-> "basic",
                rows |-> << [ total_samples |-> analyzer.total_samples,
                              functions |-> Len(analyzer.func_counts),
                              relations |->
                                  CountRelations(analyzer.call_relations) ] >>
              ] >>,
           FALSE)

PrintInclusiveTimeTop ==
    LET top_n == TopFor(DefaultTopInclusive) IN
    /\ pc = "render"
    /\ section = "inclusive"
    /\ EndSection(
           << [ section |-> "inclusive",
                rows |-> RankedRows(analyzer.inclusive_time, top_n, 100,
                                    analyzer.total_samples) ] >>,
           RankedFault(analyzer.inclusive_time, top_n,
                       analyzer.total_samples))

PrintExclusiveTimeTop ==
    LET top_n == TopFor(DefaultTopExclusive) IN
    /\ pc = "render"
    /\ section = "exclusive"
    /\ EndSection(
           << [ section |-> "exclusive",
                rows |-> RankedRows(analyzer.exclusive_time, top_n, 100,
                                    analyzer.total_samples) ] >>,
           RankedFault(analyzer.exclusive_time, top_n,
                       analyzer.total_samples))

PrintLeafFunctionsTop ==
    LET top_n == TopFor(DefaultTopLeaf) IN
    /\ pc = "render"
    /\ section = "leaf"
    /\ EndSection(
           << [ section |-> "leaf",
                rows |-> RankedRows(analyzer.leaf_counts, top_n, 120,
                                    analyzer.total_samples) ] >>,
           RankedFault(analyzer.leaf_counts, top_n, analyzer.total_samples))

\* Every bucket, by descending weight; the division is not guarded
PrintCategoryAnalysis ==
    LET n == Len(analyzer.category_counts) IN
    /\ pc = "render"
    /\ section = "category"
    /\ EndSection(
           << [ section |-> "category",
                rows |-> CategoryRows(analyzer.category_counts,
                                      analyzer.total_samples) ] >>,
           RankedFault(analyzer.category_counts, n, analyzer.total_samples))

(***************************************************************************)
(* print_memory_analysis.                                                  *)
(***************************************************************************)
\* The orders a Python set may be iterated in
Orderings(S) ==
    { f \in [ 1..Cardinality(S) -> S ] :
        \A i, j \in 1..Cardinality(S) : i # j => f[i] # f[j] }

\* memory_stats before the sort: (func, malloc, free, total) of the
\* functions of the iteration order whose total is positive
RECURSIVE MemoryStatsOf(_, _)
MemoryStatsOf(self, order) ==
    IF order = <<>> THEN <<>>
    ELSE LET func   == Head(order)
             malloc == DictGet(self.malloc_counts, func, 0)
             free   == DictGet(self.free_counts, func, 0)
         IN  (IF malloc + free > 0
              THEN << << func, malloc, free, malloc + free >> >>
              ELSE <<>>)
             \o MemoryStatsOf(self, Tail(order))

\* memory_stats: sorted by the total, descending
MemoryStats(self, order) ==
    LET stats == MemoryStatsOf(self, order) IN
    SortedDesc(stats, [ i \in 1..Len(stats) |-> stats[i][4] ])

\* The keys of malloc_counts and free_counts, in one order of the many
MemoryFuncs(self) ==
    LET m == [ i \in 1..Len(self.malloc_counts) |-> self.malloc_counts[i][1] ]
        f == [ i \in 1..Len(self.free_counts) |-> self.free_counts[i][1] ]
        NotInMalloc(k) == ~DictHas(self.malloc_counts, k)
    IN  m \o SelectSeq(f, NotInMalloc)

\* What a stable sort by the total can give, over the orders the set may be
\* iterated in: the rows of equal total stand in the order of the iteration,
\* so each run of equal totals may come in any order of its rows
RECURSIVE SortOutcomes(_)
SortOutcomes(sorted) ==
    IF sorted = <<>> THEN { <<>> }
    ELSE LET k == CHOOSE n \in 1..Len(sorted) :
                      /\ \A i \in 1..n : sorted[i][4] = sorted[1][4]
                      /\ n = Len(sorted) \/ sorted[n + 1][4] # sorted[1][4]
             run == { sorted[i] : i \in 1..k }
         IN  { p \o r : p \in Orderings(run),
                         r \in SortOutcomes(SubSeq(sorted, k + 1,
                                                   Len(sorted))) }

\* memory_stats after line 217, for every order all_memory_funcs may be
\* iterated in
MemoryStatsOutcomes(self) == SortOutcomes(MemoryStats(self, MemoryFuncs(self)))

\* x / total * 100 if total_samples > 0 else 0
GuardedPercentage(value, total) ==
    IF total > 0 THEN Percentage(value, total) ELSE [ num |-> 0, den |-> 1 ]

\* A variant of IsLeakCandidate without the floor on malloc - free.
IsLeakCandidateRatioOnly(st) ==
    st[2] > 0 /\ st[3] > 0 /\ st[2] > st[3] * 2

\* The condition of a leak candidate, lines 249 and 250
IsLeakCandidate(st) ==
    st[2] > 0 /\ st[3] > 0 /\ st[2] > st[3] * 2 /\ st[2] - st[3] > 10

\* leak_candidates: sorted by malloc - free, descending
LeakCandidates(stats) ==
    LET c == SelectSeq(stats, IsLeakCandidate) IN
    SortedDesc(c, [ i \in 1..Len(c) |-> c[i][2] - c[i][3] ])

HasMalloc(st) == st[2] > 0

HasFree(st) == st[3] > 0

\* malloc_hotspots: sorted by the allocation count, descending
MallocHotspots(stats) ==
    LET h == SelectSeq(stats, HasMalloc) IN
    SortedDesc(h, [ i \in 1..Len(h) |-> h[i][2] ])

\* free_hotspots: sorted by the free count, descending
FreeHotspots(stats) ==
    LET h == SelectSeq(stats, HasFree) IN
    SortedDesc(h, [ i \in 1..Len(h) |-> h[i][3] ])

\* A variant of RatioClass whose comparisons with 0.8 and 1.2 are not strict.
RatioClassInclusive(total_malloc, total_free) ==
    IF total_malloc > 0
    THEN IF 5 * total_free <= 4 * total_malloc THEN "leak_risk"
         ELSE IF 5 * total_free >= 6 * total_malloc THEN "release_or_skew"
         ELSE "neutral"
    ELSE "none"

\* The classification of total_free / total_malloc, lines 236 to 242; the
\* comparisons with 0.8 and 1.2 are made on the integers
RatioClass(total_malloc, total_free) ==
    IF total_malloc > 0
    THEN IF 5 * total_free < 4 * total_malloc THEN "leak_risk"
         ELSE IF 5 * total_free > 6 * total_malloc THEN "release_or_skew"
         ELSE "neutral"
    ELSE "none"

\* What print_memory_analysis prints up to line 228: the count of the
\* memory functions and the table of the first 20 of them
MemoryTable(self, stats) ==
    LET window == Slice(stats, 20)
        total  == self.total_samples
    IN  << [ section |-> "memory",
             rows |-> [ i \in 1..Len(window) |->
                 [ rank       |-> i,
                   name       |-> Slice(window[i][1], 100),
                   malloc     |-> window[i][2],
                   malloc_pct |-> GuardedPercentage(window[i][2], total),
                   free       |-> window[i][3],
                   free_pct   |-> GuardedPercentage(window[i][3], total),
                   total      |-> window[i][4],
                   total_pct  |-> GuardedPercentage(window[i][4], total) ] ]
           ] >>

\* What it prints from line 231 on, when memory_stats is not empty and
\* total_samples is not 0
MemoryDetails(self, stats) ==
    LET total        == self.total_samples
        total_malloc == DictSum(self.malloc_counts)
        total_free   == DictSum(self.free_counts)
        leaks        == Slice(LeakCandidates(stats), 10)
        mhot         == Slice(MallocHotspots(stats), 10)
        fhot         == Slice(FreeHotspots(stats), 10)
    IN  << [ section |-> "memory.totals",
             rows |-> << [ total_malloc |-> total_malloc,
                           malloc_pct   |-> Percentage(total_malloc, total),
                           total_free   |-> total_free,
                           free_pct     |-> Percentage(total_free, total),
                           class |-> RatioClass(total_malloc, total_free) ] >>
           ],
           [ section |-> "memory.leaks",
             rows |-> [ i \in 1..Len(leaks) |->
                 [ rank   |-> i,
                   name   |-> Slice(leaks[i][1], 100),
                   malloc |-> leaks[i][2],
                   free   |-> leaks[i][3],
                   diff   |-> leaks[i][2] - leaks[i][3] ] ] ],
           [ section |-> "memory.malloc_hotspots",
             rows |-> [ i \in 1..Len(mhot) |->
                 [ rank  |-> i,
                   name  |-> Slice(mhot[i][1], 100),
                   value |-> mhot[i][2],
                   pct   |-> GuardedPercentage(mhot[i][2], total) ] ] ],
           [ section |-> "memory.free_hotspots",
             rows |-> [ i \in 1..Len(fhot) |->
                 [ rank  |-> i,
                   name  |-> Slice(fhot[i][1], 100),
                   value |-> fhot[i][3],
                   pct   |-> GuardedPercentage(fhot[i][3], total) ] ] ] >>

\* all_memory_funcs is a set: the order it is iterated in is not fixed.
\* Line 234 divides by total_samples without a guard.
PrintMemoryAnalysis ==
    /\ pc = "render"
    /\ section = "memory"
    /\ \E stats \in MemoryStatsOutcomes(analyzer) :
           IF stats = <<>>
           THEN EndSection(MemoryTable(analyzer, stats), FALSE)
           ELSE IF analyzer.total_samples = 0
           THEN EndSection(MemoryTable(analyzer, stats), TRUE)
           ELSE EndSection(MemoryTable(analyzer, stats)
                             \o MemoryDetails(analyzer, stats), FALSE)

(***************************************************************************)
(* print_moganstem_analysis, print_performance_issues and                  *)
(* print_call_relations.                                                   *)
(***************************************************************************)
HasMoganSTEM(item) == Contains(<<"M","o","g","a","n","S","T","E","M">>, item[1])

HasIiiSTEM(item) == Contains(<<"i","i","i","S","T","E","M">>, item[1])

\* The functions of inclusive_time the section lists: those that hold
\* 'MoganSTEM', or those that hold 'iiiSTEM' when there are none
MoganFunctions(self) ==
    LET mogan == SelectSeq(self.inclusive_time, HasMoganSTEM) IN
    IF mogan # <<>> THEN mogan
    ELSE SelectSeq(self.inclusive_time, HasIiiSTEM)

PrintMoganstemAnalysis ==
    LET funcs == MoganFunctions(analyzer) IN
    /\ pc = "render"
    /\ section = "mogan"
    /\ EndSection(
           << [ section |-> "mogan",
                rows |-> RankedRows(funcs, 15, 100,
                                    analyzer.total_samples) ] >>,
           RankedFault(funcs, 15, analyzer.total_samples))

\* The rows of the first 20 of a ranking whose percentage is above limit
\* A variant of HighCostRows that looks at the whole ranking.
HighCostRowsNoWindow(d, limit, total) ==
    LET window == RankedRows(d, Len(d), 100, total)
        High(row) == PercentageAbove(row.pct, limit)
    IN  SelectSeq(window, High)

HighCostRows(d, limit, total) ==
    LET window == RankedRows(d, 20, 100, total)
        High(row) == PercentageAbove(row.pct, limit)
    IN  SelectSeq(window, High)

\* Both rankings divide by total_samples without a guard
PrintPerformanceIssues ==
    LET total == analyzer.total_samples IN
    /\ pc = "render"
    /\ section = "performance"
    /\ IF RankedFault(analyzer.inclusive_time, 20, total)
       THEN EndSection(<< [ section |-> "performance.inclusive",
                            rows |-> <<>> ] >>, TRUE)
       ELSE EndSection(
                << [ section |-> "performance.inclusive",
                     rows |-> HighCostRows(analyzer.inclusive_time, 2,
                                           total) ],
                   [ section |-> "performance.exclusive",
                     rows |-> HighCostRows(analyzer.exclusive_time, 1,
                                           total) ] >>,
                RankedFault(analyzer.exclusive_time, 20, total))

\* The callees in the orders the loops of lines 353 and 354 may meet them:
\* the callers in the order of the dict, the callees of one caller in any
RECURSIVE CalleeVisits(_)
CalleeVisits(cr) ==
    IF cr = <<>> THEN { <<>> }
    ELSE { o \o rest : o \in Orderings(cr[1][2]),
                       rest \in CalleeVisits(Tail(cr)) }

\* callee_counts[callee] += 1 for every callee met
RECURSIVE CountCallees(_, _)
CountCallees(d, visits) ==
    IF visits = <<>> THEN d
    ELSE CountCallees(DictAdd(d, Head(visits), 1), Tail(visits))

\* A variant of CallRows that lists both tables in the order of the dicts.
CallRowsUnsorted(callee_counts, cr, top_n) ==
    LET sorted_callees == Slice(callee_counts, top_n)
        sorted_callers == Slice(cr, top_n)
    IN  << [ section |-> "call.callees",
             rows |-> [ i \in 1..Len(sorted_callees) |->
                 [ rank  |-> i,
                   name  |-> Slice(sorted_callees[i][1], 100),
                   value |-> sorted_callees[i][2] ] ] ],
           [ section |-> "call.callers",
             rows |-> [ i \in 1..Len(sorted_callers) |->
                 [ rank  |-> i,
                   name  |-> Slice(sorted_callers[i][1], 100),
                   value |-> Cardinality(sorted_callers[i][2]) ] ] ] >>

\* The rows of the two rankings: callees by the number of their callers,
\* callers by the number of their callees
CallRows(callee_counts, cr, top_n) ==
    LET sorted_callees == Slice(SortedByValue(callee_counts), top_n)
        sorted_callers ==
            Slice(SortedDesc(cr, [ i \in 1..Len(cr) |->
                                     Cardinality(cr[i][2]) ]), top_n)
    IN  << [ section |-> "call.callees",
             rows |-> [ i \in 1..Len(sorted_callees) |->
                 [ rank  |-> i,
                   name  |-> Slice(sorted_callees[i][1], 100),
                   value |-> sorted_callees[i][2] ] ] ],
           [ section |-> "call.callers",
             rows |-> [ i \in 1..Len(sorted_callers) |->
                 [ rank  |-> i,
                   name  |-> Slice(sorted_callers[i][1], 100),
                   value |-> Cardinality(sorted_callers[i][2]) ] ] ] >>

PrintCallRelations ==
    LET top_n == TopFor(DefaultTopCall) IN
    /\ pc = "render"
    /\ section = "call"
    /\ \E visits \in CalleeVisits(analyzer.call_relations) :
           EndSection(CallRows(CountCallees(<<>>, visits),
                               analyzer.call_relations, top_n),
                      FALSE)

(***************************************************************************)
(* The specification.                                                      *)
(***************************************************************************)
Next ==
    \/ MainMissingFile
    \/ MainCreateAnalyzer
    \/ ReadLine
    \/ EndParseMain
    \/ EndParseRun
    \/ PrintBasicStats
    \/ PrintInclusiveTimeTop
    \/ PrintExclusiveTimeTop
    \/ PrintLeafFunctionsTop
    \/ PrintCategoryAnalysis
    \/ PrintMemoryAnalysis
    \/ PrintMoganstemAnalysis
    \/ PrintPerformanceIssues
    \/ PrintCallRelations

Spec == Init /\ [][Next]_vars

(***************************************************************************)
(* A second specification: the same program on chosen files, single lines  *)
(* of a wider pool and a few longer files.                                 *)
(***************************************************************************)
\* Lines beside those of LinePool
WideLines ==
    { <<"o","n","l","y","o","n","e","f","i","e","l","d">>,   \* onlyonefield
      <<"a",";","b",";","c"," ","n","i","n","e">>,           \* a;b;c nine
      <<"a"," ","b",";","5">>,                               \* a b;5
      <<"a",";"," ","5">>,                                   \* a; 5
      <<"x"," ","n","i","n","e">>,                           \* x nine
      <<" ","a",";","b",";","x"," ">>,                       \*  a;b;x
      <<"a"," ","b"," ","1","2">>,                           \* a b 12
      <<"a"," "," ","7">>,                                   \* a  7
      <<"x",";","m","a","l","l","o","c","_","f","r","e","e",";","3">>,
                                                             \* x;malloc_free;3
      <<"m","a","l","l","o","c",";","a",";","5">>,           \* malloc;a;5
      <<"x",";","r","e","a","l","l","o","c",";","2">>,       \* x;realloc;2
      <<"M","o","g","a","n","S","T","E","M",";","x",";","3">> }
                                                             \* MoganSTEM;x;3

\* How many functions the long file holds
ManyFunctions == 21

DigitChars == << "0", "1", "2", "3", "4", "5", "6", "7", "8", "9" >>

\* The name of function number i: f01, f02, ...
LeafName(i) ==
    << "f", DigitChars[((i \div 10) % 10) + 1], DigitChars[(i % 10) + 1] >>

\* A file of ManyFunctions lines, f01;1 and so on: one function a line,
\* all of the same weight
ManyFile == [ i \in 1..ManyFunctions |-> LeafName(i) \o << ";", "1" >> ]

\* A file whose functions have 97%, 2% and 1% of the samples
ThresholdFile ==
    << <<"a",";","9","7">>, <<"b",";","2">>, <<"c",";","1">> >>

\* A file with two allocation leaves and two free leaves
MemoryFile ==
    << <<"a",";","m","a","l","l","o","c",";","5">>,         \* a;malloc;5
       <<"b",";","c","a","l","l","o","c",";","7">>,         \* b;calloc;7
       <<"f","r","e","e",";","2">>,                         \* free;2
       <<"x",";","f","r","e","e","_","i","t",";","4">> >>   \* x;free_it;4

\* A file whose heaviest edge, a to b, is sampled twice, and whose caller c
\* has more callees than a
CallFile ==
    << <<"a",";","b",";","9">>, <<"a",";","b",";","9">>,
       <<"c",";","b",";","1">>, <<"c",";","d",";","1">> >>

\* The files of the second specification
WideFiles ==
    { << l >> : l \in LinePool \cup WideLines }
        \cup { MemoryFile, ManyFile, ThresholdFile, CallFile }

\* The command lines of the second specification
WideArgs ==
    { [ all |-> TRUE, types |-> {}, no_report |-> FALSE, top |-> 1,
        output |-> TRUE ],
      [ all |-> FALSE, types |-> AnalysisTypes, no_report |-> FALSE,
        top |-> 1, output |-> FALSE ] }

WideInit ==
    /\ file_exists \in BOOLEAN
    /\ file \in (IF file_exists THEN WideFiles ELSE { <<>> })
    /\ args \in WideArgs
    /\ pc = "main"
    /\ caller = "none"
    /\ pos = 0
    /\ sample = NoSample
    /\ analyzer = FreshAnalyzer
    /\ constructed = 0
    /\ scans = 0
    /\ section = "none"
    /\ out = <<>>
    /\ stdout = "console"
    /\ report_file = "none"
    /\ exit_code = -1
    /\ fault = "none"
    /\ earlier = NoRun
    /\ prof = NoProfiler

WideSpec == WideInit /\ [][Next]_vars

(***************************************************************************)
(* A third specification: print_memory_analysis on given tallies.  An      *)
(* analyzer is an object whose tallies a caller may set; the tallies are   *)
(* drawn from bounded sets and the section is rendered on them.            *)
(***************************************************************************)
\* How many leaves the large tally holds
ManyLeaves == 11

\* The counts a leaf of a small tally may have
TallyCounts == { 0, 5, 10, 15, 40, 100 }

PositiveCount(entry) == entry[2] > 0

\* The analyzer whose leaf number i has the allocation count pairs[i][1] and
\* the free count pairs[i][2]; a dict holds the leaves it counted
TallyOf(pairs, total) ==
    [ FreshAnalyzer EXCEPT
        !.malloc_counts =
            SelectSeq([ i \in 1..Len(pairs) |-> << LeafName(i), pairs[i][1] >> ],
                      PositiveCount),
        !.free_counts =
            SelectSeq([ i \in 1..Len(pairs) |-> << LeafName(i), pairs[i][2] >> ],
                      PositiveCount),
        !.total_samples = total ]

\* Two leaves of any counts; many leaves, each allocated more than twice
\* as often as freed
TallyPairs ==
    { << p, q >> : p \in TallyCounts \X TallyCounts,
                   q \in TallyCounts \X TallyCounts }
        \cup { [ i \in 1..ManyLeaves |-> << 100 + i, 40 >> ] }

TallyTotals == { 0, 1000 }

TallyArgs ==
    [ all |-> FALSE, types |-> {"memory"}, no_report |-> FALSE, top |-> 20,
      output |-> FALSE ]

TallyInit ==
    /\ file_exists = TRUE
    /\ file = <<>>
    /\ args = TallyArgs
    /\ pc = "render"
    /\ caller = "none"
    /\ pos = 0
    /\ sample = NoSample
    /\ analyzer \in { TallyOf(p, t) : p \in TallyPairs, t \in TallyTotals }
    /\ constructed = 1
    /\ scans = 0
    /\ section = "memory"
    /\ out = <<>>
    /\ stdout = "console"
    /\ report_file = "none"
    /\ exit_code = -1
    /\ fault = "none"
    /\ earlier = NoRun
    /\ prof = NoProfiler

TallyNext == PrintMemoryAnalysis

TallySpec == TallyInit /\ [][TallyNext]_vars

(***************************************************************************)
(* A fourth specification: main runs a second time on the same file with   *)
(* the same command line.                                                  *)
(***************************************************************************)
\* The first run of main is over, the second starts; what the first left
\* in its analyzer is kept aside
RunAgain ==
    /\ pc = "exit"
    /\ scans >= 1
    /\ ~earlier.ran
    /\ earlier' = [ ran |-> TRUE, analyzer |-> analyzer ]
    /\ pc' = "main"
    /\ caller' = "none"
    /\ pos' = 0
    /\ sample' = NoSample
    /\ scans' = 0
    /\ section' = "none"
    /\ out' = <<>>
    /\ stdout' = "console"
    /\ report_file' = "none"
    /\ exit_code' = -1
    /\ fault' = "none"
    /\ UNCHANGED << prof, file_exists, file, args, analyzer, constructed >>

TwoRunsNext == Next \/ RunAgain

TwoRunsSpec == WideInit /\ [][TwoRunsNext]_vars

(***************************************************************************)
(* Properties.                                                             *)
(***************************************************************************)
\* parse_file has run once, on the fresh analyzer, and has returned
ParsedOnce ==
    \/ scans = 1 /\ pc \in { "render", "exit" }
    \/ scans = 2 /\ pc = "parse" /\ pos = 0

\* The lines the scans have read so far: those before pos in the first
\* scan, every line afterwards
LinesRead ==
    IF scans = 0 THEN 0
    ELSE IF scans = 1 /\ pc = "parse" THEN pos
    ELSE Len(file)

\* C1: in every state, so after every accepted line of any input (malformed
\* lines, zero and negative weights included), the exclusive_time values add
\* up to total_samples.
C1_ExclusiveSumIsTotal ==
    DictSum(analyzer.exclusive_time) = analyzer.total_samples

\* C1 witness: a scan has ended on two samples with distinct leaves, one of
\* negative weight.
C1_Witness ==
    /\ pc = "render"
    /\ analyzer.parsed_lines >= 2
    /\ Len(analyzer.exclusive_time) >= 2
    /\ \E i \in 1..Len(analyzer.exclusive_time) :
           analyzer.exclusive_time[i][2] < 0

\* C2: after parse_file on a fresh analyzer the category_counts buckets add
\* up to total_samples.  (Violated: a bucket gets the func_counts weight of
\* its names, which counts a sample once for each frame of its stack.)
C2_CategorySumIsTotal ==
    ParsedOnce =>
        DictSum(analyzer.category_counts) = analyzer.total_samples

\* The standard folded shape f1;...;fN W: frame names without semicolon or
\* whitespace, joined by semicolons, one blank, a decimal integer
IsStandardLine(line) ==
    LET i      == LastIndexOf(line, " ")
        frames == Split(SubSeq(line, 1, i - 1), ";")
        weight == SubSeq(line, i + 1, Len(line))
    IN  /\ 1 < i
        /\ i < Len(line)
        /\ \A k \in 1..Len(weight) : weight[k] \in Digits
        /\ \A k \in 1..Len(frames) :
               /\ frames[k] # <<>>
               /\ \A j \in 1..Len(frames[k]) : frames[k][j] \notin Whitespace

\* The sample a standard line stands for
StandardSample(line) ==
    LET i == LastIndexOf(line, " ") IN
    [ accepted |-> TRUE,
      stack    |-> Split(SubSeq(line, 1, i - 1), ";"),
      count    |-> DigitRunVal(SubSeq(line, i + 1, Len(line)), 0) ]

\* C3: a line of the standard shape f1;...;fN W is parsed into the sample of
\* stack [f1, ..., fN] and weight W.  (Violated for N >= 2: the line is split
\* at its last semicolon, the token after it is not an integer, and the whole
\* line becomes the stack with weight 1.)
C3_StandardLineParsed ==
    (pc = "parse" /\ pos >= 1 /\ IsStandardLine(file[pos])) =>
        sample = StandardSample(file[pos])

\* What a single pass over the lines leaves in a fresh analyzer
RECURSIVE ScanLines(_, _)
ScanLines(self, lines) ==
    IF lines = <<>> THEN self
    ELSE ScanLines(ProcessLine(self, Head(lines)), Tail(lines))

SinglePass(lines) == Categorize(ScanLines(FreshAnalyzer, lines))

\* The sum of the weights of the accepted lines
RECURSIVE AcceptedWeight(_)
AcceptedWeight(lines) ==
    IF lines = <<>> THEN 0
    ELSE SampleOf(Head(lines)).count + AcceptedWeight(Tail(lines))

\* The tallies of an analyzer, without its line counters
Tallies(self) ==
    << self.func_counts, self.inclusive_time, self.exclusive_time,
       self.leaf_counts, self.call_relations, self.malloc_counts,
       self.free_counts, self.category_counts >>

\* C4: whenever main renders a section, total_samples is the sum of the
\* weights of the accepted lines and every tally is that of a single pass.
\* (Violated in the complete analysis: main calls parse_file and then
\* run_analysis, which calls parse_file again on the same analyzer.)
C4_SinglePassAtReport ==
    pc = "render" =>
        /\ analyzer.total_samples = AcceptedWeight(file)
        /\ Tallies(analyzer) = Tallies(SinglePass(file))

\* C5: no report section dies of a division by a zero total_samples.
\* (Violated: the rankings and line 234 divide without a guard, and
\* total_samples is 0 on non-empty tallies when the weights are 0 or cancel.)
C5_NoDivisionFault == fault # "ZeroDivisionError"

\* The file holds no line, or lines of whitespace only
AllBlank(lines) ==
    \A i \in 1..Len(lines) :
        \A j \in 1..Len(lines[i]) : lines[i][j] \in Whitespace

\* The sections printed so far
SectionsPrinted == { out[i].section : i \in 1..Len(out) }

\* What a section prints is in out under its name or under parts of it
SectionDone(sec) ==
    CASE sec = "performance" ->
             { "performance.inclusive", "performance.exclusive" }
                 \subseteq SectionsPrinted
      [] sec = "call" ->
             { "call.callees", "call.callers" } \subseteq SectionsPrinted
      [] OTHER -> sec \in SectionsPrinted

\* C6: on an empty input (no line, or blank lines only) no section dies of a
\* division, the report shows 0 samples and no percentage other than "no
\* data" (every table is empty), and main ends with every section it was
\* asked for rendered.
C6_EmptyInputReport ==
    (file_exists /\ AllBlank(file)) =>
        /\ fault = "none"
        /\ \A i \in 1..Len(out) :
               IF out[i].section = "basic"
               THEN out[i].rows[1].total_samples = 0
               ELSE out[i].rows = <<>>
        /\ pc = "exit" =>
               /\ exit_code = 0
               /\ \A k \in 1..Len(SectionOrder) :
                      Wanted(SectionOrder[k]) => SectionDone(SectionOrder[k])

\* C6 witness: the complete report of a file of blank lines has ended.
C6_Witness ==
    /\ file_exists
    /\ Len(file) >= 1
    /\ AllBlank(file)
    /\ FullMode
    /\ pc = "exit"
    /\ exit_code = 0
    /\ SectionDone("call")

\* C7: when the file is missing main does nothing but exit with status 1: no
\* analyzer is constructed, parse_file is not entered, no line is read and
\* nothing is rendered.
C7_MissingFileExits ==
    ~file_exists =>
        /\ pc \in { "main", "exit" }
        /\ pc = "main" => ENABLED MainMissingFile
        /\ pc = "exit" => exit_code = 1
        /\ constructed = 0
        /\ scans = 0
        /\ pos = 0
        /\ analyzer = FreshAnalyzer
        /\ out = <<>>

\* C7 witness: main has exited on a missing file.
C7_Witness == ~file_exists /\ pc = "exit" /\ exit_code = 1

\* The entries of the category list whose substring a name holds
MatchingEntries(func) ==
    { i \in 1..Len(categories) : Contains(categories[i][2], func) }

\* The bucket the claim gives a name: the entry listed first among those
\* that match, the fallback when none matches
ExpectedBucket(func) ==
    IF MatchingEntries(func) = {} THEN OtherCategory
    ELSE categories[CHOOSE i \in MatchingEntries(func) :
                        \A j \in MatchingEntries(func) : i <= j][1]

\* The weight of the entries i..Len(fc) of func_counts whose expected bucket,
\* expected[i], is the given one
RECURSIVE ExpectedBucketWeight(_, _, _, _)
ExpectedBucketWeight(fc, expected, bucket, i) ==
    IF i > Len(fc) THEN 0
    ELSE (IF expected[i] = bucket THEN fc[i][2] ELSE 0)
         + ExpectedBucketWeight(fc, expected, bucket, i + 1)

\* C8: after parse_file on a fresh analyzer every function name has gone to
\* exactly one bucket, the first entry of the category list whose substring
\* it holds, or the fallback: the buckets that exist are those of some name,
\* and each holds the func_counts weight of exactly its names.
C8_FirstMatchingCategory ==
    ParsedOnce =>
        LET fc       == analyzer.func_counts
            cc       == analyzer.category_counts
            expected == [ i \in 1..Len(fc) |-> ExpectedBucket(fc[i][1]) ]
        IN  /\ DictKeys(cc) = { expected[i] : i \in 1..Len(fc) }
            /\ \A k \in 1..Len(cc) :
                   cc[k][2] = ExpectedBucketWeight(fc, expected, cc[k][1], 1)
            /\ \A k, l \in 1..Len(cc) : cc[k][1] = cc[l][1] => k = l
            /\ DictSum(cc) = DictSum(fc)

\* C8 witness: a name that holds 'Qt' and 'Foundation' went to Qt, the entry
\* listed first, and Foundation got nothing.
C8_Witness ==
    /\ ParsedOnce
    /\ DictHas(analyzer.func_counts,
               <<"Q","t","F","o","u","n","d","a","t","i","o","n">>)
    /\ DictGet(analyzer.category_counts, "Qt", 0) = 2
    /\ ~DictHas(analyzer.category_counts, "Foundation")

\* The positions of a stack that hold a name
Occurrences(stack, f) == Cardinality({ i \in 1..Len(stack) : stack[i] = f })

\* The names of a stack
Frames(stack) == { stack[i] : i \in 1..Len(stack) }

\* C9: a step that accepts a sample of stack S and weight w adds w times the
\* number of positions of S that hold f to the function tallies of every
\* frame name f (inclusive_time for every name, func_counts for every
\* non-empty name) and leaves the other entries alone; the sample a;a;a of
\* weight 5 on empty tallies gives a the function tally 15, the exclusive
\* tally 5 and the callees {a}.
C9_RecursionCountedPerOccurrence ==
    [][ (pc = "parse" /\ pos' = pos + 1 /\ sample'.accepted) =>
          LET S == sample'.stack
              w == sample'.count
              a == << "a" >>
          IN  /\ \A f \in Frames(S) \cup DictKeys(analyzer'.inclusive_time) :
                     /\ DictGet(analyzer'.inclusive_time, f, 0)
                            = DictGet(analyzer.inclusive_time, f, 0)
                                  + w * Occurrences(S, f)
                     /\ f # <<>> =>
                            DictGet(analyzer'.func_counts, f, 0)
                                = DictGet(analyzer.func_counts, f, 0)
                                      + w * Occurrences(S, f)
              /\ (S = << a, a, a >> /\ w = 5 /\ analyzer = FreshAnalyzer) =>
                     /\ analyzer'.inclusive_time = << << a, 15 >> >>
                     /\ analyzer'.func_counts = << << a, 15 >> >>
                     /\ analyzer'.exclusive_time = << << a, 5 >> >>
                     /\ analyzer'.call_relations = << << a, { a } >> >>
      ]_vars

\* C9 witness: the sample a;a;a of weight 5 was accepted on empty tallies.
C9_Witness ==
    /\ pc = "parse"
    /\ scans = 1
    /\ pos = 1
    /\ sample.stack = << <<"a">>, <<"a">>, <<"a">> >>
    /\ sample.count = 5
    /\ analyzer.inclusive_time = << << <<"a">>, 15 >> >>

\* The edges of call_relations: (caller, callee)
Edges(cr) == UNION { { << cr[i][1], x >> : x \in cr[i][2] } : i \in 1..Len(cr) }

\* The adjacent pairs of a stack
AdjacentPairs(stack) ==
    { << stack[i], stack[i + 1] >> : i \in 1..(Len(stack) - 1) }

\* The adjacent pairs of the stacks accepted so far
AcceptedPairs ==
    UNION { AdjacentPairs(SampleOf(file[i]).stack) : i \in 1..LinesRead }

\* C10: callee is in call_relations[caller] exactly when a stack accepted so
\* far holds caller immediately followed by callee, however often the pair
\* occurs; a caller has one entry, and an entry has a callee.
C10_EdgesAreAdjacentPairs ==
    /\ Edges(analyzer.call_relations) = AcceptedPairs
    /\ \A i, j \in 1..Len(analyzer.call_relations) :
           analyzer.call_relations[i][1] = analyzer.call_relations[j][1]
               => i = j
    /\ \A i \in 1..Len(analyzer.call_relations) :
           analyzer.call_relations[i][2] # {}

\* C10 witness: the pair (a, a) was met twice in one stack and again in the
\* next, and call_relations[a] is {a}.
C10_Witness ==
    /\ pc = "parse"
    /\ scans = 1
    /\ pos = 2
    /\ file[1] = file[2]
    /\ sample.stack = << <<"a">>, <<"a">>, <<"a">> >>
    /\ analyzer.call_relations = << << <<"a">>, { <<"a">> } >> >>

(***************************************************************************)
(* C11: the lenient fallback of parse_file.                                *)
(***************************************************************************)
\* The token parse_file hands to int(): what follows the last semicolon of
\* the line, or what follows its last blank when it has no semicolon
TrailingToken(line) ==
    IF HasChar(line, ";")
    THEN SubSeq(line, LastIndexOf(line, ";") + 1, Len(line))
    ELSE SubSeq(line, LastIndexOf(line, " ") + 1, Len(line))

\* The line has no count: neither a semicolon nor a blank, or a trailing
\* token that is no integer
FallsBack(line) ==
    \/ ~HasChar(line, ";") /\ ~HasChar(line, " ")
    \/ ~IsInt(TrailingToken(line))

\* The line read last, stripped
LastLine == Strip(file[pos])

OnlyOneField == <<"o","n","l","y","o","n","e","f","i","e","l","d">>
ABCNine == <<"a",";","b",";","c"," ","n","i","n","e">>

\* C11: a non-empty line without a count is taken whole as the stack, split
\* at its semicolons only, with weight 1; 'onlyonefield' is the stack
\* ["onlyonefield"] and 'a;b;c nine' the stack ["a","b","c nine"], weight 1
C11_LenientFallback ==
    pos > 0 /\ LastLine # <<>> =>
        /\ FallsBack(LastLine) =>
               sample = [ accepted |-> TRUE,
                          stack    |-> Split(LastLine, ";"),
                          count    |-> 1 ]
        /\ LastLine = OnlyOneField =>
               sample.stack = << OnlyOneField >> /\ sample.count = 1
        /\ LastLine = ABCNine =>
               /\ sample.stack = << <<"a">>, <<"b">>,
                                    <<"c"," ","n","i","n","e">> >>
               /\ sample.count = 1

\* The line 'a;b;c nine' was read, and fell back
C11_Witness ==
    /\ pos > 0
    /\ LastLine = ABCNine
    /\ FallsBack(LastLine)
    /\ sample.accepted
    /\ Len(sample.stack) = 3

(***************************************************************************)
(* C12: parse_file reads every line and counts the lines it parsed.        *)
(***************************************************************************)
\* The lines that are not empty once stripped
RECURSIVE NonBlankLines(_)
NonBlankLines(lines) ==
    IF lines = <<>> THEN 0
    ELSE (IF Strip(Head(lines)) # <<>> THEN 1 ELSE 0)
             + NonBlankLines(Tail(lines))

\* A call of parse_file has returned
ParseReturned ==
    /\ scans >= 1
    /\ \/ pc \in { "render", "exit" }
       \/ scans = 2 /\ pc = "parse" /\ pos = 0

\* C12: parse_file reads up to the last line whatever the lines hold, every
\* line that is not blank gives exactly one sample, and when parse_file has
\* returned line_count is the number of lines of the file and parsed_lines
\* the number of its lines that are not blank.
\* (Violated in the complete analysis: the second call of parse_file, by
\* run_analysis, adds to the counters the first call left.)
C12_LineCounters ==
    /\ pos > 0 => (sample.accepted <=> LastLine # <<>>)
    /\ pc \in { "render", "exit" } /\ scans >= 1 => pos = Len(file)
    /\ ParseReturned =>
           /\ analyzer.line_count = Len(file)
           /\ analyzer.parsed_lines = NonBlankLines(file)
           /\ analyzer.parsed_lines <= analyzer.line_count

(***************************************************************************)
(* C13: the leak candidates of print_memory_analysis.                      *)
(***************************************************************************)
\* The rows printed under the name sec, <<>> when nothing was
RowsOf(sec) ==
    IF \E i \in 1..Len(out) : out[i].section = sec
    THEN out[CHOOSE i \in 1..Len(out) : out[i].section = sec].rows
    ELSE <<>>

Printed(sec) == \E i \in 1..Len(out) : out[i].section = sec

AllocOf(name) == DictGet(analyzer.malloc_counts, name, 0)

FreeOf(name) == DictGet(analyzer.free_counts, name, 0)

\* The leaves the claim names: allocated, freed, allocated more than twice
\* as often as freed, and more than 10 times more often
Flagged ==
    { name \in DictKeys(analyzer.malloc_counts)
                   \cup DictKeys(analyzer.free_counts) :
        /\ AllocOf(name) > 0
        /\ FreeOf(name) > 0
        /\ AllocOf(name) > 2 * FreeOf(name)
        /\ AllocOf(name) - FreeOf(name) > 10 }

\* The rows name leaves of the set, each once, with their counts, in
\* descending order of allocation - free
LeakRowsRanked(rows) ==
    /\ \A i \in 1..Len(rows) :
           /\ rows[i].name \in Flagged
           /\ rows[i].malloc = AllocOf(rows[i].name)
           /\ rows[i].free = FreeOf(rows[i].name)
           /\ rows[i].diff = rows[i].malloc - rows[i].free
    /\ \A i, j \in 1..Len(rows) :
           i < j => rows[i].name # rows[j].name /\ rows[i].diff >= rows[j].diff

Min(a, b) == IF a < b THEN a ELSE b

AllocLeaves == { name \in DictKeys(analyzer.malloc_counts) : AllocOf(name) > 0 }

FreeLeaves == { name \in DictKeys(analyzer.free_counts) : FreeOf(name) > 0 }

\* The rows name leaves of the set, each once, with their counts, in
\* descending order of the count
HotspotRowsRanked(rows, leaves, CountOf(_)) ==
    /\ \A i \in 1..Len(rows) :
           rows[i].name \in leaves /\ rows[i].value = CountOf(rows[i].name)
    /\ \A i, j \in 1..Len(rows) :
           i < j => rows[i].name # rows[j].name
                    /\ rows[i].value >= rows[j].value

\* C14: the allocation hotspots are the allocation leaves by descending
\* allocation count, the free hotspots the free leaves by descending free
\* count, and each view is cut to the top-N count the caller gave (--top).
\* (Violated: print_memory_analysis takes no count and shows 10 of each.)
C14_HotspotsCutToTopN ==
    Printed("memory.free_hotspots") =>
        /\ HotspotRowsRanked(RowsOf("memory.malloc_hotspots"), AllocLeaves,
                             AllocOf)
        /\ Len(RowsOf("memory.malloc_hotspots"))
               = Min(args.top, Cardinality(AllocLeaves))
        /\ HotspotRowsRanked(RowsOf("memory.free_hotspots"), FreeLeaves,
                             FreeOf)
        /\ Len(RowsOf("memory.free_hotspots"))
               = Min(args.top, Cardinality(FreeLeaves))

(***************************************************************************)
(* C15: the high-cost view of print_performance_issues.                    *)
(***************************************************************************)
\* The place of entry number i of the dict d in its descending ranking:
\* after the entries of greater value and the earlier ones of equal value
RankIn(d, i) ==
    1 + Cardinality({ j \in 1..Len(d) :
            d[j][2] > d[i][2] \/ (d[j][2] = d[i][2] /\ j < i) })

\* value / total * 100 > k
AboveThreshold(value, total, k) ==
    IF total > 0 THEN 100 * value > k * total ELSE 100 * value < k * total

\* The entries of d the high-cost view is to list for the threshold k
HighCost(d, k) ==
    { i \in 1..Len(d) :
        RankIn(d, i) <= 20
        /\ AboveThreshold(d[i][2], analyzer.total_samples, k) }

\* The rows are the entries of HighCost(d, k), by ascending place
HighCostListed(rows, d, k) ==
    /\ Len(rows) = Cardinality(HighCost(d, k))
    /\ \A i \in HighCost(d, k) :
           \E r \in 1..Len(rows) :
               rows[r].name = d[i][1] /\ rows[r].rank = RankIn(d, i)
    /\ \A r, q \in 1..Len(rows) : r < q => rows[r].rank < rows[q].rank

\* C15: the high-cost view lists exactly the functions among the first 20
\* of the descending inclusive ranking whose inclusive percentage is above
\* 2%, and the functions among the first 20 of the exclusive ranking whose
\* exclusive percentage is above 1%; a function of place 21 or lower is
\* never listed, whatever its percentage.
C15_HighCostWithinTop20 ==
    /\ Printed("performance.inclusive") /\ fault = "none" =>
           HighCostListed(RowsOf("performance.inclusive"),
                          analyzer.inclusive_time, 2)
    /\ Printed("performance.exclusive") /\ fault = "none" =>
           HighCostListed(RowsOf("performance.exclusive"),
                          analyzer.exclusive_time, 1)

\* The view was printed for a ranking whose place 21 is above the threshold
C15_Witness ==
    /\ Printed("performance.inclusive")
    /\ Printed("performance.exclusive")
    /\ Len(RowsOf("performance.inclusive")) = 20
    /\ Len(RowsOf("performance.exclusive")) = 20
    /\ \E i \in 1..Len(analyzer.inclusive_time) :
           /\ RankIn(analyzer.inclusive_time, i) = 21
           /\ AboveThreshold(analyzer.inclusive_time[i][2],
                             analyzer.total_samples, 2)
    /\ \E i \in 1..Len(analyzer.exclusive_time) :
           /\ RankIn(analyzer.exclusive_time, i) = 21
           /\ AboveThreshold(analyzer.exclusive_time[i][2],
                             analyzer.total_samples, 1)

ReportToFile == FullMode /\ ReportMode /\ args.output

\* C17: the output file is open, and sys.stdout the file, only while
\* generate_report renders; when generate_report was called with an output
\* file and has returned or a section has raised, the file is closed and
\* sys.stdout is the stream it was before the call.
C17_OutputHandleScoped ==
    /\ report_file = "open" => pc = "render" /\ stdout = "file"
    /\ stdout = "file" => pc = "render" /\ report_file = "open"
    /\ pc = "render" /\ ReportToFile => report_file = "open"
    /\ pc = "exit" /\ scans = 2 /\ ReportToFile =>
           report_file = "closed" /\ stdout = "console"

\* A section of a report written to a file has raised
C17_Witness ==
    /\ pc = "exit"
    /\ ReportToFile
    /\ fault = "ZeroDivisionError"
    /\ report_file = "closed"
    /\ stdout = "console"

(***************************************************************************)
(* C18: --top and the ranked tables.                                       *)
(***************************************************************************)
\* The tables --top is to bound
RankedTables ==
    { "inclusive", "exclusive", "leaf", "call.callees", "call.callers" }

\* C18: the inclusive, exclusive, leaf and call-graph tables main renders
\* show at most --top rows, in the complete analysis as in the selected one.
\* (Violated in the complete analysis: run_analysis and generate_report call
\* the print methods without a count, so their defaults 20, 20, 30 and 10
\* apply whatever --top says.)
C18_TopBoundsTables ==
    \A sec \in RankedTables :
        Printed(sec) => Len(RowsOf(sec)) <= args.top

(***************************************************************************)
(* C19: the allocation and free tallies of a sample.                       *)
(***************************************************************************)
AllocFamily ==
    { <<"m","a","l","l","o","c">>, <<"c","a","l","l","o","c">>,
      <<"r","e","a","l","l","o","c">> }

InAllocFamily(name) == \E sub \in AllocFamily : Contains(sub, name)

InFreeFamily(name) == Contains(<<"f","r","e","e">>, name)

MallocFree == <<"m","a","l","l","o","c","_","f","r","e","e">>

\* C19: an accepted sample of leaf l and weight w adds w to the allocation
\* counter of l when l contains malloc, calloc or realloc (also when it
\* contains free as well), else w to the free counter of l when l contains
\* free, else nothing; no other counter of the two tallies changes, so that
\* the frames above the leaf never count.
C19_LeafAllocFreeTally ==
    [][ (pc = "parse" /\ pos' = pos + 1 /\ sample'.accepted) =>
          LET S == sample'.stack
              l == S[Len(S)]
              w == sample'.count
              names == Frames(S) \cup DictKeys(analyzer'.malloc_counts)
                           \cup DictKeys(analyzer'.free_counts)
          IN  \A f \in names :
                  /\ DictGet(analyzer'.malloc_counts, f, 0)
                         = DictGet(analyzer.malloc_counts, f, 0)
                               + (IF f = l /\ InAllocFamily(l) THEN w ELSE 0)
                  /\ DictGet(analyzer'.free_counts, f, 0)
                         = DictGet(analyzer.free_counts, f, 0)
                               + (IF f = l /\ ~InAllocFamily(l)
                                      /\ InFreeFamily(l)
                                  THEN w ELSE 0)
      ]_vars

\* The sample x;malloc_free of weight 3 was counted as an allocation
C19_Witness ==
    /\ pos > 0
    /\ sample.accepted
    /\ sample.stack = << <<"x">>, MallocFree >>
    /\ AllocOf(MallocFree) >= 3
    /\ FreeOf(MallocFree) = 0

(***************************************************************************)
(* C20: the classification of total_free / total_malloc.                   *)
(***************************************************************************)
TotalAlloc == DictSum(analyzer.malloc_counts)

TotalFree == DictSum(analyzer.free_counts)

\* The classification printed with the totals
PrintedClass == RowsOf("memory.totals")[1].class

CalleesOf(c) == DictGet(analyzer.call_relations, c, {})

\* The callers of f
CallersOf(f) == { c \in DictKeys(analyzer.call_relations) : f \in CalleesOf(c) }

\* The names that are called
AllCallees == UNION { CalleesOf(c) : c \in DictKeys(analyzer.call_relations) }

\* The rows name members of the set, each once, each with its degree, in
\* descending order of the degree, and no member left out has a greater
\* degree than one that is listed
DegreeRanking(rows, members, Degree(_)) ==
    /\ \A i \in 1..Len(rows) :
           rows[i].name \in members /\ rows[i].value = Degree(rows[i].name)
    /\ \A i, j \in 1..Len(rows) :
           i < j => rows[i].name # rows[j].name
                    /\ rows[i].value >= rows[j].value
    /\ \A m \in members :
           (\A i \in 1..Len(rows) : rows[i].name # m) =>
               \A i \in 1..Len(rows) : rows[i].value >= Degree(m)

InDegree(f) == Cardinality(CallersOf(f))

OutDegree(c) == Cardinality(CalleesOf(c))

\* C21: in the call-graph summary the figure of a callee is the number of
\* its distinct callers and the figure of a caller the number of its
\* distinct callees, both tables are in descending order of the figure, and
\* the figures are those of call_relations alone, whatever the weights and
\* however often an edge was sampled.
C21_CallGraphDegrees ==
    Printed("call.callers") =>
        /\ DegreeRanking(RowsOf("call.callees"), AllCallees, InDegree)
        /\ DegreeRanking(RowsOf("call.callers"),
                         DictKeys(analyzer.call_relations), OutDegree)

\* The summary was printed for the file whose heaviest caller, a, has fewer
\* callees than c
C21_Witness ==
    /\ Printed("call.callers")
    /\ file = CallFile
    /\ RowsOf("call.callers")[1].name = <<"c">>
    /\ RowsOf("call.callers")[1].value = 2
    /\ RowsOf("call.callees")[1].name = <<"b">>
    /\ RowsOf("call.callees")[1].value = 2
    /\ DictGet(analyzer.inclusive_time, <<"a">>, 0)
           > DictGet(analyzer.inclusive_time, <<"c">>, 0)

(***************************************************************************)
(* C22: a line whose weight follows a blank.                               *)
(***************************************************************************)
\* The number a run of decimal digits writes
RECURSIVE Decimal(_)
Decimal(s) ==
    IF s = <<>> THEN 0
    ELSE 10 * Decimal(SubSeq(s, 1, Len(s) - 1)) + DigitVal(s[Len(s)])

\* The line ends with a blank at position i followed by decimal digits
EndsWithWeightAt(line, i) ==
    /\ line[i] = " "
    /\ i < Len(line)
    /\ \A j \in (i + 1)..Len(line) : line[j] \in Digits

\* C22: a non-empty line without a semicolon that ends with a blank and a
\* decimal integer W gives the sample whose stack is the one frame made of
\* the text before that blank and whose weight is W.
C22_SplitAtLastBlank ==
    pos > 0 /\ LastLine # <<>> /\ ~HasChar(LastLine, ";") =>
        \A i \in 1..Len(LastLine) :
            EndsWithWeightAt(LastLine, i) =>
                sample = [ accepted |-> TRUE,
                           stack    |-> << SubSeq(LastLine, 1, i - 1) >>,
                           count    |->
                               Decimal(SubSeq(LastLine, i + 1,
                                              Len(LastLine))) ]

\* The line 'a b 12' was read: one frame 'a b' of weight 12
C22_Witness ==
    /\ pos > 0
    /\ LastLine = <<"a"," ","b"," ","1","2">>
    /\ sample.stack = << <<"a"," ","b">> >>
    /\ sample.count = 12

(***************************************************************************)
(* C23: the tallies during the report.                                     *)
(***************************************************************************)
\* C23: once parse_file has returned and the report is rendered, no section
\* (basic statistics, inclusive, exclusive, leaf, category, memory,
\* MoganSTEM search, performance, call graph; in generate_report or called
\* by main) adds, removes or changes a key or a value of a tally or a
\* counter of the analyzer.
C23_TalliesFrozenInReport ==
    [][ pc = "render" => analyzer' = analyzer ]_vars

\* Every section was rendered on tallies with allocation and free leaves
C23_Witness ==
    /\ pc = "exit"
    /\ fault = "none"
    /\ \A sec \in AnalysisTypes : SectionDone(sec)
    /\ Len(analyzer.malloc_counts) > 0
    /\ Len(analyzer.free_counts) > 0
    /\ Len(analyzer.call_relations) > 0

(***************************************************************************)
(* C24: a line with an empty stack string.                                 *)
(***************************************************************************)
\* C24: a line whose stack string is empty, as that of ';5', contributes
\* nothing to the function, inclusive, exclusive, leaf, call-edge and
\* allocation/free tallies.
\* (Violated: ''.split(';') is [''], not [], so `if not stack` at line 92
\* never holds and the empty name gets the weight in inclusive_time,
\* exclusive_time and leaf_counts.)
C24_EmptyStackContributesNothing ==
    [][ (pc = "parse" /\ pos' = pos + 1 /\ sample'.accepted
           /\ sample'.stack = << <<>> >>) =>
          /\ analyzer'.func_counts = analyzer.func_counts
          /\ analyzer'.inclusive_time = analyzer.inclusive_time
          /\ analyzer'.exclusive_time = analyzer.exclusive_time
          /\ analyzer'.leaf_counts = analyzer.leaf_counts
          /\ analyzer'.call_relations = analyzer.call_relations
          /\ analyzer'.malloc_counts = analyzer.malloc_counts
          /\ analyzer'.free_counts = analyzer.free_counts
      ]_vars


(***************************************************************************)
(* The profilers: generic_profiler.py (GenericProfiler), run_profiling.py  *)
(* (ProjectProfiler) and flamegraph_profiler.py (FlamegraphProfiler).      *)
(* One run of a profiler is one behaviour of ProfilerSpec; prof holds the  *)
(* profiler object and the position of its run.  A step that can fail      *)
(* chooses its outcome: the commands, the target and the user (Ctrl-C)     *)
(* are outside the program.                                                *)
(***************************************************************************)
\* The longest list of build commands of a project
MaxBuildCmds == 2

\* ProjectProfiler.build_project runs two commands: configure, then build
ProjectBuildCmds == 2

ProfilerKinds == { "generic", "project", "flamegraph" }

\* The profilers whose run builds the project first
BuildingKinds == { "generic", "project" }

\* The variables of the analyzer, which no step of a profiler touches
analyzerVars ==
    << file_exists, file, args, pc, caller, pos, sample, analyzer,
       constructed, scans, section, out, stdout, report_file, exit_code,
       fault, earlier >>

\* Both switches of the command line, and of the configuration file
Switches == [ no_build : BOOLEAN, no_memory : BOOLEAN ]
GlobalConfigs == [ skip_build : BOOLEAN, enable_memory : BOOLEAN ]

\* An optional argument: <<>> is None, <<v>> is the value v
None == <<>>

\* "x if x is not None else d" of GenericProfiler.__init__
IfNotNone(x, d) == IF x # None THEN x[1] ELSE d

\* GenericProfiler.__init__: the two fields the arguments and the
\* configuration decide
GenericProfilerFields(enable_memory, skip_build, global_config) ==
    [ enable_memory |-> IfNotNone(enable_memory, global_config.enable_memory),
      skip_build |-> IfNotNone(skip_build, global_config.skip_build) ]

\* main of generic_profiler.py: what it hands to GenericProfiler
GenericMainFields(cli, global_config) ==
    GenericProfilerFields(<< ~cli.no_memory >>, << cli.no_build >>,
                          global_config)

\* main of run_profiling.py and ProjectProfiler.__init__
ProjectMainFields(cli) ==
    [ enable_memory |-> ~cli.no_memory, skip_build |-> cli.no_build ]

\* main of flamegraph_profiler.py and FlamegraphProfiler.__init__: there is
\* no build to skip
FlamegraphMainFields(cli) ==
    [ enable_memory |-> ~cli.no_memory, skip_build |-> TRUE ]

ProfilerStarts ==
    { [ NoProfiler EXCEPT !.kind = "generic", !.global_config = g,
                          !.cli = c, !.build_cmds = n ] :
        g \in GlobalConfigs, c \in Switches, n \in 0..MaxBuildCmds }
    \cup { [ NoProfiler EXCEPT !.kind = "project", !.cli = c,
                               !.build_cmds = ProjectBuildCmds ] :
             c \in Switches }
    \cup { [ NoProfiler EXCEPT !.kind = "flamegraph", !.cli = c ] :
             c \in { s \in Switches : ~s.no_build } }

ProfilerInit ==
    /\ file_exists = FALSE
    /\ file = <<>>
    /\ args = TallyArgs
    /\ pc = "main"
    /\ caller = "none"
    /\ pos = 0
    /\ sample = NoSample
    /\ analyzer = FreshAnalyzer
    /\ constructed = 0
    /\ scans = 0
    /\ section = "none"
    /\ out = <<>>
    /\ stdout = "console"
    /\ report_file = "none"
    /\ exit_code = -1
    /\ fault = "none"
    /\ earlier = NoRun
    /\ prof \in ProfilerStarts

\* An exception leaves the try block of run for its except clauses
Raise(p, e) == [ p EXCEPT !.raised = e, !.step = "except" ]

\* cleanup: the dtrace processes and the target are terminated
Cleanup(p) ==
    [ p EXCEPT !.cleanups = @ + 1,
               !.target_process = IF @ = "running" THEN "terminated" ELSE @ ]

\* main constructs the profiler and calls run
ProfilerMain ==
    /\ prof.step = "main"
    /\ LET f == CASE prof.kind = "generic" ->
                       GenericMainFields(prof.cli, prof.global_config)
                  [] prof.kind = "project" -> ProjectMainFields(prof.cli)
                  [] OTHER -> FlamegraphMainFields(prof.cli)
       IN prof' = [ prof EXCEPT
                      !.enable_memory = f.enable_memory,
                      !.skip_build = f.skip_build,
                      !.step = IF prof.kind \in BuildingKinds
                               THEN "build_project"
                               ELSE "check_prerequisites" ]
    /\ UNCHANGED analyzerVars

\* build_project up to its first command: nothing to do when the build is
\* skipped
BuildProject ==
    /\ prof.step = "build_project"
    /\ prof' = [ prof EXCEPT
                   !.step = IF prof.skip_build \/ prof.build_cmds = 0
                            THEN "find_executable" ELSE "run_command" ]
    /\ UNCHANGED analyzerVars

\* What subprocess.run of one command can end with
CommandOutcomes ==
    { "ok", "CalledProcessError", "TimeoutExpired", "KeyboardInterrupt" }

\* run_command of a variant whose check is off: a failing command is taken
\* for a finished one
RunCommandUnchecked ==
    /\ prof.step = "run_command"
    /\ \E outcome \in CommandOutcomes :
         LET i == Len(prof.built) + 1
             went_on == [ prof EXCEPT
                            !.built = Append(@, i),
                            !.failed = IF outcome = "CalledProcessError"
                                       THEN i ELSE @,
                            !.step = IF i = prof.build_cmds
                                     THEN "find_executable"
                                     ELSE "run_command" ]
         IN prof' = CASE outcome \in { "ok", "CalledProcessError" } -> went_on
                      [] outcome = "TimeoutExpired" ->
                           Raise([ prof EXCEPT !.failed = i ], "Exception")
                      [] OTHER -> Raise(prof, "KeyboardInterrupt")
    /\ UNCHANGED analyzerVars

\* The next build command, run by run_command with check=True: a command
\* that exits non-zero or times out raises, and the loop of build_project
\* ends there
RunCommand ==
    /\ prof.step = "run_command"
    /\ \E outcome \in CommandOutcomes :
         LET i == Len(prof.built) + 1
         IN prof' = CASE outcome = "ok" ->
                           [ prof EXCEPT
                               !.built = Append(@, i),
                               !.step = IF i = prof.build_cmds
                                        THEN "find_executable"
                                        ELSE "run_command" ]
                      [] outcome \in { "CalledProcessError",
                                       "TimeoutExpired" } ->
                           Raise([ prof EXCEPT !.failed = i ], "Exception")
                      [] OTHER -> Raise(prof, "KeyboardInterrupt")
    /\ UNCHANGED analyzerVars

\* What a step without a command of its own can end with
StepOutcomes == { "ok", "Exception", "KeyboardInterrupt" }

\* find_executable, and check_prerequisites of FlamegraphProfiler: the
\* executable is there, or an exception is raised
FindExecutable ==
    /\ prof.step \in { "find_executable", "check_prerequisites" }
    /\ \E outcome \in StepOutcomes :
         prof' = IF outcome = "ok"
                 THEN [ prof EXCEPT !.step = "popen" ]
                 ELSE Raise(prof, outcome)
    /\ UNCHANGED analyzerVars

\* subprocess.Popen of the target, in a process group of its own
StartTarget ==
    /\ prof.step = "popen"
    /\ \E outcome \in StepOutcomes :
         prof' = IF outcome = "ok"
                 THEN [ prof EXCEPT !.target_process = "running",
                                    !.step = "startup_wait" ]
                 ELSE Raise(prof, outcome)
    /\ UNCHANGED analyzerVars

\* time.sleep after Popen and the poll that follows: the target is alive,
\* or it exited too early (RuntimeError), or the user interrupts the sleep
StartupWait ==
    /\ prof.step = "startup_wait"
    /\ \E outcome \in StepOutcomes :
         prof' = CASE outcome = "ok" ->
                        [ prof EXCEPT
                            !.step = IF prof.kind = "flamegraph"
                                     THEN "register" ELSE "analysis" ]
                   [] outcome = "Exception" ->
                        Raise([ prof EXCEPT !.target_process = "exited" ],
                              "Exception")
                   [] OTHER -> Raise(prof, "KeyboardInterrupt")
    /\ UNCHANGED analyzerVars

\* FlamegraphProfiler.run: atexit.register(self.cleanup), once
\* run_target_process has returned
AtexitRegister ==
    /\ prof.step = "register"
    /\ prof' = [ prof EXCEPT !.registered = TRUE, !.step = "analysis" ]
    /\ UNCHANGED analyzerVars

\* The dtrace processes: CPU, and memory when enable_memory.  The two
\* profilers with a try/finally go to its finally clause whatever the
\* outcome, FlamegraphProfiler has none
RunAnalysis ==
    /\ prof.step = "analysis"
    /\ \E outcome \in StepOutcomes :
         LET started == [ prof EXCEPT
                            !.dtrace_processes =
                                IF prof.enable_memory
                                THEN { "cpu", "memory" } ELSE { "cpu" } ]
         IN prof' = CASE prof.kind \in BuildingKinds ->
                           [ started EXCEPT
                               !.raised = IF outcome = "ok"
                                          THEN "none" ELSE outcome,
                               !.step = "finally" ]
                      [] outcome = "ok" ->
                           [ started EXCEPT !.step = "generate" ]
                      [] OTHER -> Raise(started, outcome)
    /\ UNCHANGED analyzerVars

\* The finally clause of run_target_with_profiling
Finally ==
    /\ prof.step = "finally"
    /\ prof' = [ Cleanup(prof) EXCEPT
                   !.step = IF prof.raised = "none"
                            THEN "generate" ELSE "except" ]
    /\ UNCHANGED analyzerVars

\* The flame graphs and the summary, then "return True"
GenerateFlamegraphs ==
    /\ prof.step = "generate"
    /\ \E outcome \in StepOutcomes :
         LET generating == [ prof EXCEPT !.generated = TRUE ]
         IN prof' = IF outcome = "ok"
                    THEN [ generating EXCEPT !.result = "True",
                                             !.step = "returned" ]
                    ELSE Raise(generating, outcome)
    /\ UNCHANGED analyzerVars

\* The except clauses of a variant of run that does not clean up
HandleExceptionNoCleanup ==
    /\ prof.step = "except"
    /\ prof' = [ prof EXCEPT !.result = "False", !.step = "returned" ]
    /\ UNCHANGED analyzerVars

\* The except clauses of run: GenericProfiler and ProjectProfiler call
\* cleanup, FlamegraphProfiler does not; all return False
HandleException ==
    /\ prof.step = "except"
    /\ prof' = [ (IF prof.kind \in BuildingKinds
                  THEN Cleanup(prof) ELSE prof) EXCEPT
                   !.result = "False", !.step = "returned" ]
    /\ UNCHANGED analyzerVars

\* main exits with the result of run; the interpreter calls what atexit
\* has registered
ProcessExit ==
    /\ prof.step = "returned"
    /\ prof' = [ (IF prof.registered THEN Cleanup(prof) ELSE prof) EXCEPT
                   !.step = "exited" ]
    /\ UNCHANGED analyzerVars

ProfilerNext ==
    \/ ProfilerMain
    \/ BuildProject
    \/ RunCommand
    \/ FindExecutable
    \/ StartTarget
    \/ StartupWait
    \/ AtexitRegister
    \/ RunAnalysis
    \/ Finally
    \/ GenerateFlamegraphs
    \/ HandleException
    \/ ProcessExit

ProfilerSpec == ProfilerInit /\ [][ProfilerNext]_vars

(***************************************************************************)
(* C25                                                                     *)
(***************************************************************************)
\* The GenericProfiler that main has constructed
GenericConstructed == prof.kind = "generic" /\ prof.step # "main"

\* C25: in generic_profiler a switch of the command line wins over the
\* configuration file, and without the switch the configuration decides:
\* without --no-build the build is skipped exactly when the configuration
\* says skip_build, and without --no-memory the memory analysis runs
\* exactly when the configuration says enable_memory.
C25_ConfigDecidesWithoutOverride ==
    GenericConstructed =>
        /\ prof.skip_build = (prof.cli.no_build \/ prof.global_config.skip_build)
        /\ prof.enable_memory =
               (~prof.cli.no_memory /\ prof.global_config.enable_memory)
        /\ (prof.skip_build => prof.built = <<>>)
        /\ (~prof.enable_memory => "memory" \notin prof.dtrace_processes)

(***************************************************************************)
(* C26                                                                     *)
(***************************************************************************)
\* C26: after any input the keys of malloc_counts and of free_counts are
\* disjoint, no leaf has both a non-zero allocation count and a non-zero
\* free count, and the leak-candidate view, once printed, has no row.
C26_AllocFreeDisjoint ==
    /\ DictKeys(analyzer.malloc_counts) \cap DictKeys(analyzer.free_counts)
           = {}
    /\ \A name \in DictKeys(analyzer.malloc_counts)
                       \cup DictKeys(analyzer.free_counts) :
           ~(AllocOf(name) # 0 /\ FreeOf(name) # 0)
    /\ Printed("memory.leaks") => RowsOf("memory.leaks") = <<>>

\* The memory analysis ran on tallies with allocations and with frees and
\* printed the view, empty
C26_Witness ==
    /\ Printed("memory.leaks")
    /\ AllocLeaves # {}
    /\ FreeLeaves # {}
    /\ RowsOf("memory.leaks") = <<>>

(***************************************************************************)
(* C27                                                                     *)
(***************************************************************************)
\* run of GenericProfiler or ProjectProfiler has returned
RunReturned ==
    prof.kind \in BuildingKinds /\ prof.step \in { "returned", "exited" }

\* C27: in GenericProfiler.run and ProjectProfiler.run, on every path on
\* which the target was started (normal completion, premature exit, an
\* exception in the analysis, KeyboardInterrupt) cleanup has been called at
\* least once when run returns, and the flame graphs are not generated
\* before a cleanup has ended the target.
C27_CleanupOnEveryPath ==
    /\ RunReturned /\ prof.target_process # "none" =>
           prof.cleanups >= 1 /\ prof.target_process # "running"
    /\ prof.kind \in BuildingKinds
         /\ (prof.step = "generate" \/ prof.generated) =>
           prof.cleanups >= 1 /\ prof.target_process # "running"

\* The user interrupted the start-up wait: run returned False after its
\* except clause had terminated the running target
C27_Witness ==
    /\ RunReturned
    /\ prof.raised = "KeyboardInterrupt"
    /\ prof.dtrace_processes = {}
    /\ prof.target_process = "terminated"
    /\ prof.cleanups = 1
    /\ prof.result = "False"

(***************************************************************************)
(* C28                                                                     *)
(***************************************************************************)
\* C28: in FlamegraphProfiler.run, whenever the target was started and is
\* still running, cleanup is registered to run at exit, wherever the run
\* fails or is interrupted afterwards (also by a KeyboardInterrupt in the
\* start-up wait of run_target_process), so the target is not left running
\* when the profiler has exited.
C28_CleanupRegisteredAtExit ==
    prof.kind = "flamegraph" =>
        /\ prof.target_process = "running"
             /\ prof.step \in { "except", "returned" } => prof.registered
        /\ prof.step = "exited" => prof.target_process # "running"

(***************************************************************************)
(* C29                                                                     *)
(***************************************************************************)
\* The build commands 1..n in the configured order
InOrder(n) == [ i \in 1..n |-> i ]

\* The target or a dtrace process was started
Started == prof.target_process # "none" \/ prof.dtrace_processes # {}

\* C29: in GenericProfiler.run and ProjectProfiler.run the target and the
\* dtrace processes are started only after every build command has
\* completed successfully, in the configured order, or after the build was
\* skipped; a build command that fails or times out stops the remaining
\* commands, and the run returns failure without starting the target.
C29_BuildBeforeTarget ==
    prof.kind \in BuildingKinds =>
        /\ Started =>
               \/ prof.skip_build /\ prof.built = <<>>
               \/ prof.failed = 0 /\ prof.built = InOrder(prof.build_cmds)
        /\ prof.built = InOrder(Len(prof.built))
        /\ prof.failed # 0 =>
               /\ prof.built = InOrder(prof.failed - 1)
               /\ ~Started
               /\ prof.step \in { "except", "returned", "exited" }
               /\ prof.step # "except" => prof.result = "False"

\* The first of two build commands succeeded and the second failed: run
\* returned False, no target
C29_Witness ==
    /\ prof.kind \in BuildingKinds
    /\ prof.build_cmds = 2
    /\ prof.built = << 1 >>
    /\ prof.failed = 2
    /\ prof.step = "returned"
    /\ prof.result = "False"
    /\ prof.target_process = "none"

(***************************************************************************)
(* C30                                                                     *)
(***************************************************************************)
\* No line of the file has a negative weight
NonNegativeWeights == \A i \in 1..Len(file) : SampleOf(file[i]).count >= 0

ExclusiveOf(f) == DictGet(analyzer.exclusive_time, f, 0)

InclusiveOf(f) == DictGet(analyzer.inclusive_time, f, 0)

\* C30: after any input whose weights are all non-negative, every key of
\* exclusive_time is a key of inclusive_time, and for every frame name the
\* exclusive weight is at most the inclusive weight.
C30_ExclusiveAtMostInclusive ==
    NonNegativeWeights =>
        /\ DictKeys(analyzer.exclusive_time)
               \subseteq DictKeys(analyzer.inclusive_time)
        /\ \A f \in DictKeys(analyzer.exclusive_time)
                        \cup DictKeys(analyzer.inclusive_time) :
               ExclusiveOf(f) <= InclusiveOf(f)

\* A file of non-negative weights was read to its end: one frame was a leaf
\* and a caller (exclusive below inclusive), another a leaf only
C30_Witness ==
    /\ NonNegativeWeights
    /\ pc = "exit"
    /\ \E f \in DictKeys(analyzer.exclusive_time) :
           0 < ExclusiveOf(f) /\ ExclusiveOf(f) < InclusiveOf(f)
    /\ \E f \in DictKeys(analyzer.exclusive_time) :
           0 < ExclusiveOf(f) /\ ExclusiveOf(f) = InclusiveOf(f)

=============================================================================
